---- MODULE Spec2Model ----
(***************************************************************************)
(* Quota enforcement of the demos-faucet server: the requests table of     *)
(* server/src/safeguards.ts, the three request-checking operations         *)
(* (checkSafeguards, checkAndRecordRequest, checkIfAllowed followed by     *)
(* recordSuccessfulRequest) and the POST /api/request handler of           *)
(* server/src/index.ts, run by concurrent requests of one JavaScript       *)
(* event loop: a step of a request is the code between two awaits.         *)
(* In front of the handlers, the DDoSProtection middleware of security.ts: *)
(* its map of tracked origins, its set of blocked origins and the timers   *)
(* that unblock them.                                                      *)
(***************************************************************************)
EXTENDS Integers, Sequences, FiniteSets

(* ------------------------------ bounds -------------------------------- *)

\* Requests (tasks of the event loop) that arrive during one run.
NumTasks == 3
\* The clock (seconds) runs from 0 to MaxTime.
MaxTime == 3
\* NUMBER_PER_INTERVAL is drawn from 1..MaxPerInterval.
MaxPerInterval == 2

\* Requests to other routes that pass the DDoS middleware during one run.
MaxRequests == 5
\* The same in a run in which an origin can be blocked twice.
MaxRepeatRequests == 6
\* POST /api/request requests that arrive during one run of the whole server,
\* middleware and handler.
MaxServerTasks == 1
\* With such requests the clock runs from 0 to MaxGuardTime.
MaxGuardTime == 5
\* DDoSProtection.SUSPICIOUS_THRESHOLD (50 requests), WINDOW_SIZE (60 s) and
\* BLOCK_DURATION (15 min), scaled down to a few requests and ticks of the
\* clock; the block outlasts the window as in the source.
SUSPICIOUS_THRESHOLD == 2
WINDOW_SIZE == 2
BLOCK_DURATION == 3

\* getGlobalStats: the hour of oneHourAgo = now - 3600 and the LIMIT 10 of its
\* top addresses, scaled down to ticks of the clock and to fewer addresses
\* than the runs have.
OneHour == 2
TopLimit == 1

Tasks == 1..NumTasks

\* Recipient addresses (identities).
Addresses == {"a1", "a2"}

\* getClientIP(req): requests come in turn from two origins.
ClientIP(t) == IF t % 2 = 1 THEN "ip1" ELSE "ip2"

\* The origins getClientIP(req) tells apart.
Origins == {"ip1", "ip2"}

\* Values of MAX_AMOUNT and TIME_INTERVAL the server is started with.
MaxAmounts == {60, 1000}
TimeIntervals == {2}

(* ------------------------- program constants -------------------------- *)

\* maxAmount = 100 for an address that carries an identity.
IdentityMaxAmount == 100

MsgAllowed == "Request allowed"
MsgExceedsMaximum == "exceeds maximum allowed amount"
MsgNumberOfRequests == "has reached the maximum number of requests"
MsgWouldExceed == "would exceed the maximum amount limit"
MsgAmountLimit == "has reached the maximum amount limit"
MsgError == "An error occurred processing your request. Please try again."
MsgRequired == "Address and amount are required"
MsgInternal == "Internal server error"
MsgBlocked == "IP temporarily blocked due to suspicious activity"

\* What the DDoS middleware does with a request: it calls next(), or it answers
\* 429 and logs one of two lines.
GuardNext == "next"
GuardBlocked == "Blocked IP attempted access"
GuardBlocks == "IP blocked for DDoS protection"

(* ------------------------------- state -------------------------------- *)

VARIABLES
  numberPerInterval,  \* FaucetServer.numberPerInterval
  maxAmount,          \* FaucetServer.maxAmount
  timeInterval,       \* FaucetServer.timeInterval
  requests,           \* rows of the requests table, in id order
  clock,              \* Math.floor(Date.now() / 1000)
  task,               \* per request: position and local variables
  suspiciousIPs,      \* DDoSProtection.suspiciousIPs: origin -> count, firstSeen
  blockedIPs,         \* DDoSProtection.blockedIPs
  timers,             \* pending setTimeout callbacks: origin, time due
  log                 \* what the middleware did with each request so far

vars == <<numberPerInterval, maxAmount, timeInterval, requests, clock, task,
          suspiciousIPs, blockedIPs, timers, log>>

guard == <<suspiciousIPs, blockedIPs, timers, log>>

config == <<numberPerInterval, maxAmount, timeInterval>>

(* ---------------------------- the database ---------------------------- *)

\* INSERT OR REPLACE keyed by the address: the row replaces the address's
\* newest one.
Insert_Replace(db, address, amount, ip, timestamp) ==
  LET row == [address |-> address, amount |-> amount, ip |-> ip,
              timestamp |-> timestamp]
      ids == {i \in 1..Len(db) : db[i].address = address}
  IN IF ids = {} THEN Append(db, row)
     ELSE [db EXCEPT ![CHOOSE i \in ids : \A j \in ids : j <= i] = row]

\* INSERT INTO requests (address, amount, ip, timestamp) VALUES (?, ?, ?, ?)
Insert(db, address, amount, ip, timestamp) ==
  Append(db, [address |-> address, amount |-> amount, ip |-> ip,
              timestamp |-> timestamp])

\* The WHERE clause with >= for >: a row exactly timeInterval old still counts.
Recent_Inclusive(db, address, since) ==
  {i \in 1..Len(db) : db[i].address = address /\ db[i].timestamp >= since}

\* The ids of the rows WHERE address = ? AND timestamp > ?
Recent(db, address, since) ==
  {i \in 1..Len(db) : db[i].address = address /\ db[i].timestamp > since}

RECURSIVE SumAmount(_, _)
\* SUM(amount) over the rows ids; NULL (no row) is read as 0.
SumAmount(db, ids) ==
  IF ids = {} THEN 0
  ELSE LET i == CHOOSE j \in ids : TRUE
       IN db[i].amount + SumAmount(db, ids \ {i})

\* The same aggregate without the address in its WHERE clause: over the rows
\* of every address after since.
RecentRequests_AnyAddress(db, address, since) ==
  LET ids == {i \in 1..Len(db) : db[i].timestamp > since}
  IN [total_amount |-> SumAmount(db, ids),
      request_count |-> Cardinality(ids)]

\* SELECT SUM(amount) as total_amount, COUNT(*) as request_count
\* FROM requests WHERE address = ? AND timestamp > ?
RecentRequests(db, address, since) ==
  [total_amount |-> SumAmount(db, Recent(db, address, since)),
   request_count |-> Cardinality(Recent(db, address, since))]

(* --------------------------- the connection --------------------------- *)

\* The statement of a transaction block that throws, if any.
NoFault == "none"
Faults == {NoFault, "begin", "query", "insert", "commit"}

\* The database connection this.db: the rows its statements see and, inside a
\* transaction, the rows a ROLLBACK restores.
Connection(db) == [rows |-> db, saved |-> db, open |-> FALSE]

\* BEGIN EXCLUSIVE TRANSACTION
Begin(c) == [c EXCEPT !.saved = c.rows, !.open = TRUE]

\* COMMIT
Commit(c) == [c EXCEPT !.saved = c.rows, !.open = FALSE]

\* ROLLBACK: the rows are those of before BEGIN; with no transaction open the
\* statement throws and changes nothing.
Rollback(c) ==
  IF c.open THEN [rows |-> c.saved, saved |-> c.saved, open |-> FALSE] ELSE c

(* --------------------------- the operations --------------------------- *)

\* The outcome of an operation: what it returns and the table it leaves.
Outcome(allowed, message, amount, db) ==
  [allowed |-> allowed, message |-> message, amount |-> amount, db |-> db]

\* The outcome of an operation that ends with the connection c.
TxOutcome(allowed, message, amount, c) ==
  [allowed |-> allowed, message |-> message, amount |-> amount,
   db |-> c.rows, open |-> c.open]

\* catch (error): ROLLBACK inside its own try, then the error message.
Caught(c) == TxOutcome(FALSE, MsgError, 0, Rollback(c))

\* The ledger's answer to demos.getAddressInfo(address), or no client given.
Lookups == {"noDemos", "identity", "noIdentity", "throws"}

\* The lookup with a catch block that gives the address no allowance when
\* getAddressInfo throws.
IdentityLimit_NothingOnError(base, lookup) ==
  IF lookup = "identity" THEN IdentityMaxAmount
  ELSE IF lookup = "throws" THEN 0
  ELSE base

\* let maxAmount = this.faucetServer.maxAmount, raised to 100 when the
\* address carries an identity.
IdentityLimit(base, lookup) ==
  IF lookup = "identity" THEN IdentityMaxAmount ELSE base

\* checkSafeguards with its count test off by one (> for >=).
checkSafeguards_CountOffByOne(db, address, amount, ip, now, fault) ==
  IF amount > maxAmount
    THEN Outcome(FALSE, MsgExceedsMaximum, 0, db)
  ELSE IF fault
    THEN Outcome(FALSE, MsgInternal, 0, db)
  ELSE LET stats == RecentRequests(db, address, now - timeInterval) IN
    IF stats.request_count > numberPerInterval
      THEN Outcome(FALSE, MsgNumberOfRequests, 0, db)
    ELSE IF stats.total_amount + amount > maxAmount
      THEN Outcome(FALSE, MsgWouldExceed, 0, db)
    ELSE Outcome(TRUE, MsgAllowed, amount, Insert(db, address, amount, ip, now))

\* checkSafeguards with an amount test that looks at the recorded total only.
checkSafeguards_TotalOnly(db, address, amount, ip, now, fault) ==
  IF amount > maxAmount
    THEN Outcome(FALSE, MsgExceedsMaximum, 0, db)
  ELSE IF fault
    THEN Outcome(FALSE, MsgInternal, 0, db)
  ELSE LET stats == RecentRequests(db, address, now - timeInterval) IN
    IF stats.request_count >= numberPerInterval
      THEN Outcome(FALSE, MsgNumberOfRequests, 0, db)
    ELSE IF stats.total_amount > maxAmount
      THEN Outcome(FALSE, MsgWouldExceed, 0, db)
    ELSE Outcome(TRUE, MsgAllowed, amount, Insert(db, address, amount, ip, now))

\* checkSafeguards without its first test, amount > maxAmount.
checkSafeguards_NoMaximumTest(db, address, amount, ip, now, fault) ==
  IF fault
    THEN Outcome(FALSE, MsgInternal, 0, db)
  ELSE LET stats == RecentRequests(db, address, now - timeInterval) IN
    IF stats.request_count >= numberPerInterval
      THEN Outcome(FALSE, MsgNumberOfRequests, 0, db)
    ELSE IF stats.total_amount + amount > maxAmount
      THEN Outcome(FALSE, MsgWouldExceed, 0, db)
    ELSE Outcome(TRUE, MsgAllowed, amount, Insert(db, address, amount, ip, now))

\* Safeguards.checkSafeguards(address, amount, ip) at time now; fault: a
\* statement of the database throws (the exception leaves the method).
checkSafeguards(db, address, amount, ip, now, fault) ==
  IF amount > maxAmount
    THEN Outcome(FALSE, MsgExceedsMaximum, 0, db)
  ELSE IF fault
    THEN Outcome(FALSE, MsgInternal, 0, db)
  ELSE LET stats == RecentRequests(db, address, now - timeInterval) IN
    IF stats.request_count >= numberPerInterval
      THEN Outcome(FALSE, MsgNumberOfRequests, 0, db)
    ELSE IF stats.total_amount + amount > maxAmount
      THEN Outcome(FALSE, MsgWouldExceed, 0, db)
    ELSE Outcome(TRUE, MsgAllowed, amount, Insert(db, address, amount, ip, now))

\* checkAndRecordRequest denying only a negative remaining allowance (< for
\* <=): with nothing left it grants and records an amount of 0.
checkAndRecordRequest_GrantsNothingLeft(db, address, ip, now, limit, fault) ==
  IF fault # NoFault
    THEN TxOutcome(FALSE, MsgError, 0, Connection(db))
  ELSE LET stats == RecentRequests(db, address, now - timeInterval)
           remainingAllowance == limit - stats.total_amount
           amount == IF limit > remainingAllowance THEN remainingAllowance
                     ELSE limit
       IN
    IF stats.request_count >= numberPerInterval
      THEN TxOutcome(FALSE, MsgNumberOfRequests, 0, Connection(db))
    ELSE IF limit > remainingAllowance /\ remainingAllowance < 0
      THEN TxOutcome(FALSE, MsgAmountLimit, 0, Connection(db))
    ELSE TxOutcome(TRUE, MsgAllowed, amount,
                   Connection(Insert(db, address, amount, ip, now)))

\* checkAndRecordRequest without the reduction to the remaining allowance: an
\* allowed request is always granted the whole ceiling.
checkAndRecordRequest_NoReduction(db, address, ip, now, limit, fault) ==
  IF fault # NoFault
    THEN Outcome(FALSE, MsgError, 0, db)
  ELSE LET stats == RecentRequests(db, address, now - timeInterval)
           remainingAllowance == limit - stats.total_amount
       IN
    IF stats.request_count >= numberPerInterval
      THEN Outcome(FALSE, MsgNumberOfRequests, 0, db)
    ELSE IF limit > remainingAllowance /\ remainingAllowance <= 0
      THEN Outcome(FALSE, MsgAmountLimit, 0, db)
    ELSE Outcome(TRUE, MsgAllowed, limit, Insert(db, address, limit, ip, now))

\* checkAndRecordRequest with the amount test ahead of the count test.
checkAndRecordRequest_AmountFirst(db, address, ip, now, limit, fault) ==
  IF fault # NoFault
    THEN Outcome(FALSE, MsgError, 0, db)
  ELSE LET stats == RecentRequests(db, address, now - timeInterval)
           remainingAllowance == limit - stats.total_amount
           amount == IF limit > remainingAllowance THEN remainingAllowance
                     ELSE limit
       IN
    IF limit > remainingAllowance /\ remainingAllowance <= 0
      THEN Outcome(FALSE, MsgAmountLimit, 0, db)
    ELSE IF stats.request_count >= numberPerInterval
      THEN Outcome(FALSE, MsgNumberOfRequests, 0, db)
    ELSE Outcome(TRUE, MsgAllowed, amount, Insert(db, address, amount, ip, now))

\* checkAndRecordRequest with its count test off by one (> for >=).
checkAndRecordRequest_CountOffByOne(db, address, ip, now, limit, fault) ==
  IF fault # NoFault
    THEN Outcome(FALSE, MsgError, 0, db)
  ELSE LET stats == RecentRequests(db, address, now - timeInterval)
           remainingAllowance == limit - stats.total_amount
           amount == IF limit > remainingAllowance THEN remainingAllowance
                     ELSE limit
       IN
    IF stats.request_count > numberPerInterval
      THEN Outcome(FALSE, MsgNumberOfRequests, 0, db)
    ELSE IF limit > remainingAllowance /\ remainingAllowance <= 0
      THEN Outcome(FALSE, MsgAmountLimit, 0, db)
    ELSE Outcome(TRUE, MsgAllowed, amount, Insert(db, address, amount, ip, now))

\* checkAndRecordRequest with a catch block that does not roll back.
checkAndRecordRequest_NoRollback(db, address, ip, now, limit, fault) ==
  LET c0 == Connection(db)
      c1 == Begin(c0)
      stats == RecentRequests(c1.rows, address, now - timeInterval)
      remainingAllowance == limit - stats.total_amount
      amount == IF limit > remainingAllowance THEN remainingAllowance
                ELSE limit
      c2 == [c1 EXCEPT !.rows = Insert(c1.rows, address, amount, ip, now)]
  IN
  IF fault = "begin"
    THEN TxOutcome(FALSE, MsgError, 0, c0)
  ELSE IF fault = "query"
    THEN TxOutcome(FALSE, MsgError, 0, c1)
  ELSE IF stats.request_count >= numberPerInterval
    THEN TxOutcome(FALSE, MsgNumberOfRequests, 0, Rollback(c1))
  ELSE IF limit > remainingAllowance /\ remainingAllowance <= 0
    THEN TxOutcome(FALSE, MsgAmountLimit, 0, Rollback(c1))
  ELSE IF fault = "insert"
    THEN TxOutcome(FALSE, MsgError, 0, c1)
  ELSE IF fault = "commit"
    THEN TxOutcome(FALSE, MsgError, 0, c2)
  ELSE TxOutcome(TRUE, MsgAllowed, amount, Commit(c2))

\* checkAndRecordRequest recording the attempt before it decides, and
\* committing on a denial.
checkAndRecordRequest_RecordsAttempt(db, address, ip, now, limit, fault) ==
  LET c0 == Connection(db)
      c1 == Begin(c0)
      stats == RecentRequests(c1.rows, address, now - timeInterval)
      remainingAllowance == limit - stats.total_amount
      amount == IF limit > remainingAllowance THEN remainingAllowance
                ELSE limit
      c2 == [c1 EXCEPT !.rows = Insert(c1.rows, address, amount, ip, now)]
      c3 == [c1 EXCEPT !.rows = Insert(c1.rows, address, 0, ip, now)]
  IN
  IF fault = "begin"
    THEN Caught(c0)
  ELSE IF fault = "query"
    THEN Caught(c1)
  ELSE IF stats.request_count >= numberPerInterval
    THEN TxOutcome(FALSE, MsgNumberOfRequests, 0, Commit(c3))
  ELSE IF limit > remainingAllowance /\ remainingAllowance <= 0
    THEN TxOutcome(FALSE, MsgAmountLimit, 0, Commit(c3))
  ELSE IF fault = "insert"
    THEN Caught(c1)
  ELSE IF fault = "commit"
    THEN Caught(c2)
  ELSE TxOutcome(TRUE, MsgAllowed, amount, Commit(c2))

\* checkAndRecordRequest returning its denials without ROLLBACK.
checkAndRecordRequest_DenialHoldsTransaction(db, address, ip, now, limit, fault) ==
  LET c0 == Connection(db)
      c1 == Begin(c0)
      stats == RecentRequests(c1.rows, address, now - timeInterval)
      remainingAllowance == limit - stats.total_amount
      amount == IF limit > remainingAllowance THEN remainingAllowance
                ELSE limit
      c2 == [c1 EXCEPT !.rows = Insert(c1.rows, address, amount, ip, now)]
  IN
  IF fault = "begin"
    THEN Caught(c0)
  ELSE IF fault = "query"
    THEN Caught(c1)
  ELSE IF stats.request_count >= numberPerInterval
    THEN TxOutcome(FALSE, MsgNumberOfRequests, 0, c1)
  ELSE IF limit > remainingAllowance /\ remainingAllowance <= 0
    THEN TxOutcome(FALSE, MsgAmountLimit, 0, c1)
  ELSE IF fault = "insert"
    THEN Caught(c1)
  ELSE IF fault = "commit"
    THEN Caught(c2)
  ELSE TxOutcome(TRUE, MsgAllowed, amount, Commit(c2))

\* Safeguards.checkAndRecordRequest after its identity lookup: the
\* BEGIN EXCLUSIVE ... COMMIT block, run with the local maxAmount (limit) and
\* the now read at the start of the call. fault: the statement of the block
\* that throws when it is reached; the catch block rolls back and returns the
\* error message.
checkAndRecordRequest(db, address, ip, now, limit, fault) ==
  LET c0 == Connection(db)
      c1 == Begin(c0)
      stats == RecentRequests(c1.rows, address, now - timeInterval)
      remainingAllowance == limit - stats.total_amount
      amount == IF limit > remainingAllowance THEN remainingAllowance
                ELSE limit
      c2 == [c1 EXCEPT !.rows = Insert(c1.rows, address, amount, ip, now)]
  IN
  IF fault = "begin"
    THEN Caught(c0)
  ELSE IF fault = "query"
    THEN Caught(c1)
  ELSE IF stats.request_count >= numberPerInterval
    THEN TxOutcome(FALSE, MsgNumberOfRequests, 0, Rollback(c1))
  ELSE IF limit > remainingAllowance /\ remainingAllowance <= 0
    THEN TxOutcome(FALSE, MsgAmountLimit, 0, Rollback(c1))
  ELSE IF fault = "insert"
    THEN Caught(c1)
  ELSE IF fault = "commit"
    THEN Caught(c2)
  ELSE TxOutcome(TRUE, MsgAllowed, amount, Commit(c2))

\* checkIfAllowed ending its transaction as checkAndRecordRequest does: the
\* row is inserted and committed.
checkIfAllowed_Commits(db, address, ip, now, limit, fault) ==
  checkAndRecordRequest(db, address, ip, now, limit, fault)

\* checkIfAllowed answering with the whole ceiling where checkAndRecordRequest
\* reduces the amount to the remaining allowance.
checkIfAllowed_WholeCeiling(db, address, ip, now, limit, fault) ==
  LET out == checkAndRecordRequest(db, address, ip, now, limit, fault)
  IN TxOutcome(out.allowed, out.message,
               IF out.allowed THEN limit ELSE out.amount, Connection(db))

\* Safeguards.checkIfAllowed after its identity lookup: the same query inside
\* BEGIN EXCLUSIVE ... ROLLBACK, then the same decision, nothing recorded.
\* fault: the statement that throws when it is reached (the block has no
\* INSERT and no COMMIT to reach).
checkIfAllowed(db, address, ip, now, limit, fault) ==
  LET c0 == Connection(db)
      c1 == Begin(c0)
      stats == RecentRequests(c1.rows, address, now - timeInterval)
      c2 == Rollback(c1)
      remainingAllowance == limit - stats.total_amount
      amount == IF limit > remainingAllowance THEN remainingAllowance
                ELSE limit
  IN
  IF fault = "begin"
    THEN Caught(c0)
  ELSE IF fault = "query"
    THEN Caught(c1)
  ELSE IF stats.request_count >= numberPerInterval
    THEN TxOutcome(FALSE, MsgNumberOfRequests, 0, c2)
  ELSE IF limit > remainingAllowance /\ remainingAllowance <= 0
    THEN TxOutcome(FALSE, MsgAmountLimit, 0, c2)
  ELSE TxOutcome(TRUE, MsgAllowed, amount, c2)

\* What a call of recordSuccessfulRequest leaves: the table, and whether the
\* call ended by throwing to its caller (a rejected promise).
Recorded(db, thrown) == [db |-> db, thrown |-> thrown]

\* recordSuccessfulRequest without its catch block: a failing INSERT is thrown
\* to the caller.
recordSuccessfulRequest_Rethrows(db, address, ip, amount, now, fault) ==
  IF fault THEN Recorded(db, TRUE)
  ELSE Recorded(Insert(db, address, amount, ip, now), FALSE)

\* Safeguards.recordSuccessfulRequest(address, ip, amount) at time now: one
\* INSERT inside try; fault: the INSERT throws, the catch block logs the error
\* and the call returns.
recordSuccessfulRequest(db, address, ip, amount, now, fault) ==
  IF fault THEN Recorded(db, FALSE)
  ELSE Recorded(Insert(db, address, amount, ip, now), FALSE)

Max(a, b) == IF a > b THEN a ELSE b

\* MAX(timestamp) over the rows ids (ids is not empty).
MaxTimestamp(db, ids) ==
  db[CHOOSE i \in ids : \A j \in ids : db[j].timestamp <= db[i].timestamp].timestamp

\* null
Null == "null"

\* getAddressStats counting the time until reset from the first grant of the
\* window, MIN(timestamp), instead of the last.
getAddressStats_FromFirst(db, address, now) ==
  LET ids == Recent(db, address, now - timeInterval)
      first == IF ids = {} THEN 0
               ELSE db[CHOOSE i \in ids :
                         \A j \in ids : db[i].timestamp <= db[j].timestamp].timestamp
      total_requests == Cardinality(ids)
      total_amount == SumAmount(db, ids)
  IN [totalRequests |-> total_requests,
      totalAmount |-> total_amount,
      lastRequest |-> IF first # 0 THEN first ELSE Null,
      remainingRequests |-> Max(0, numberPerInterval - total_requests),
      remainingAmount |-> Max(0, maxAmount - total_amount),
      timeUntilReset |-> Max(0, IF first # 0
                                  THEN timeInterval - (now - first) ELSE 0)]

\* Safeguards.getAddressStats(address) at time now; a last_request that is
\* NULL (no row) or 0 is reported as null. The ceiling is the server's
\* maxAmount.
getAddressStats(db, address, now) ==
  LET ids == Recent(db, address, now - timeInterval)
      total_requests == Cardinality(ids)
      total_amount == SumAmount(db, ids)
      hasLast == ids # {} /\ MaxTimestamp(db, ids) # 0
      timeUntilReset == IF hasLast
                          THEN timeInterval - (now - MaxTimestamp(db, ids))
                          ELSE 0
  IN [totalRequests |-> total_requests,
      totalAmount |-> total_amount,
      lastRequest |-> IF hasLast THEN MaxTimestamp(db, ids) ELSE Null,
      remainingRequests |-> Max(0, numberPerInterval - total_requests),
      remainingAmount |-> Max(0, maxAmount - total_amount),
      timeUntilReset |-> Max(0, timeUntilReset)]

\* The addresses that have a row.
AddressesOf(db) == {db[i].address : i \in 1..Len(db)}

\* The ids of all the rows of address (GROUP BY address).
RowsOf(db, address) == {i \in 1..Len(db) : db[i].address = address}

\* SELECT address, SUM(amount) as total_amount, COUNT(*) as request_count
\* FROM requests GROUP BY address ORDER BY total_amount DESC LIMIT 10: the
\* results the query can return (the order of addresses with equal totals is
\* not specified).
TopAddresses(db) ==
  LET groups == AddressesOf(db)
      n == IF Cardinality(groups) < TopLimit THEN Cardinality(groups)
           ELSE TopLimit
      total(a) == SumAmount(db, RowsOf(db, a))
      ordered == {f \in [1..n -> groups] :
                    /\ \A i, j \in 1..n : i < j => f[i] # f[j]
                    /\ \A i, j \in 1..n : i < j => total(f[i]) >= total(f[j])
                    /\ \A a \in groups :
                         (\A i \in 1..n : f[i] # a)
                           => \A i \in 1..n : total(f[i]) >= total(a)}
  IN {[i \in 1..n |-> [address |-> f[i],
                       totalAmount |-> total(f[i]),
                       requestCount |-> Cardinality(RowsOf(db, f[i]))]] :
        f \in ordered}

\* getGlobalStats counting only the rows of the last hour in its totals.
getGlobalStats_Hourly(db, now, top) ==
  LET hour == {i \in 1..Len(db) : db[i].timestamp > now - OneHour}
  IN [totalRequests |-> Cardinality(hour),
      totalAmount |-> SumAmount(db, hour),
      uniqueAddresses |-> Cardinality({db[i].address : i \in hour}),
      requestsPerHour |-> Cardinality(hour),
      topAddresses |-> top]

\* Safeguards.getGlobalStats() at time now, top being what its third query
\* returns: three SELECTs over the whole table, nothing written. SUM over no
\* row (NULL) is reported as 0.
getGlobalStats(db, now, top) ==
  [totalRequests |-> Len(db),
   totalAmount |-> SumAmount(db, 1..Len(db)),
   uniqueAddresses |-> Cardinality(AddressesOf(db)),
   requestsPerHour |->
     Cardinality({i \in 1..Len(db) : db[i].timestamp > now - OneHour}),
   topAddresses |-> top]

(* ------------------------------ the guard ----------------------------- *)

\* new Map()
EmptyMap == [j \in {} |-> 0]

\* Map.set(key, value)
MapSet(m, key, value) ==
  [j \in DOMAIN m \cup {key} |-> IF j = key THEN value ELSE m[j]]

\* Map.delete(key)
MapDelete(m, key) == [j \in DOMAIN m \ {key} |-> m[j]]

\* The state of a DDoSProtection and of its timers.
GuardState(sus, blocked, tms) ==
  [suspiciousIPs |-> sus, blockedIPs |-> blocked, timers |-> tms]

\* What a call of the middleware does (outcome) and the state g it leaves.
GuardResult(outcome, g) ==
  [outcome |-> outcome, suspiciousIPs |-> g.suspiciousIPs,
   blockedIPs |-> g.blockedIPs, timers |-> g.timers]

\* The middleware without its test of blockedIPs.has(ip).
middleware_IgnoresBlocked(g, ip, now) ==
  IF ip \in DOMAIN g.suspiciousIPs
    THEN LET existing == g.suspiciousIPs[ip] IN
      IF now - existing.firstSeen > WINDOW_SIZE
        THEN GuardResult(GuardNext,
               [g EXCEPT !.suspiciousIPs =
                  MapSet(@, ip, [count |-> 1, firstSeen |-> now])])
      ELSE IF existing.count + 1 > SUSPICIOUS_THRESHOLD
        THEN GuardResult(GuardBlocks,
               [g EXCEPT !.blockedIPs = @ \cup {ip},
                         !.suspiciousIPs = MapDelete(@, ip),
                         !.timers = @ \cup {[ip |-> ip,
                                             due |-> now + BLOCK_DURATION]}])
      ELSE GuardResult(GuardNext,
             [g EXCEPT !.suspiciousIPs =
                MapSet(@, ip, [existing EXCEPT !.count = @ + 1])])
    ELSE GuardResult(GuardNext,
           [g EXCEPT !.suspiciousIPs =
              MapSet(@, ip, [count |-> 1, firstSeen |-> now])])

\* The middleware blocking at the threshold (>= for >).
middleware_BlocksAtThreshold(g, ip, now) ==
  IF ip \in g.blockedIPs
    THEN GuardResult(GuardBlocked, g)
  ELSE IF ip \in DOMAIN g.suspiciousIPs
    THEN LET existing == g.suspiciousIPs[ip] IN
      IF now - existing.firstSeen > WINDOW_SIZE
        THEN GuardResult(GuardNext,
               [g EXCEPT !.suspiciousIPs =
                  MapSet(@, ip, [count |-> 1, firstSeen |-> now])])
      ELSE IF existing.count + 1 >= SUSPICIOUS_THRESHOLD
        THEN GuardResult(GuardBlocks,
               [g EXCEPT !.blockedIPs = @ \cup {ip},
                         !.suspiciousIPs = MapDelete(@, ip),
                         !.timers = @ \cup {[ip |-> ip,
                                             due |-> now + BLOCK_DURATION]}])
      ELSE GuardResult(GuardNext,
             [g EXCEPT !.suspiciousIPs =
                MapSet(@, ip, [existing EXCEPT !.count = @ + 1])])
    ELSE GuardResult(GuardNext,
           [g EXCEPT !.suspiciousIPs =
              MapSet(@, ip, [count |-> 1, firstSeen |-> now])])

\* The middleware without the reset of an expired window.
middleware_NeverResets(g, ip, now) ==
  IF ip \in g.blockedIPs
    THEN GuardResult(GuardBlocked, g)
  ELSE IF ip \in DOMAIN g.suspiciousIPs
    THEN LET existing == g.suspiciousIPs[ip] IN
      IF existing.count + 1 > SUSPICIOUS_THRESHOLD
        THEN GuardResult(GuardBlocks,
               [g EXCEPT !.blockedIPs = @ \cup {ip},
                         !.suspiciousIPs = MapDelete(@, ip),
                         !.timers = @ \cup {[ip |-> ip,
                                             due |-> now + BLOCK_DURATION]}])
      ELSE GuardResult(GuardNext,
             [g EXCEPT !.suspiciousIPs =
                MapSet(@, ip, [existing EXCEPT !.count = @ + 1])])
    ELSE GuardResult(GuardNext,
           [g EXCEPT !.suspiciousIPs =
              MapSet(@, ip, [count |-> 1, firstSeen |-> now])])

\* The middleware resetting a window as soon as WINDOW_SIZE has elapsed
\* (>= for >).
middleware_ResetsAtWindow(g, ip, now) ==
  IF ip \in g.blockedIPs
    THEN GuardResult(GuardBlocked, g)
  ELSE IF ip \in DOMAIN g.suspiciousIPs
    THEN LET existing == g.suspiciousIPs[ip] IN
      IF now - existing.firstSeen >= WINDOW_SIZE
        THEN GuardResult(GuardNext,
               [g EXCEPT !.suspiciousIPs =
                  MapSet(@, ip, [count |-> 1, firstSeen |-> now])])
      ELSE IF existing.count + 1 > SUSPICIOUS_THRESHOLD
        THEN GuardResult(GuardBlocks,
               [g EXCEPT !.blockedIPs = @ \cup {ip},
                         !.suspiciousIPs = MapDelete(@, ip),
                         !.timers = @ \cup {[ip |-> ip,
                                             due |-> now + BLOCK_DURATION]}])
      ELSE GuardResult(GuardNext,
             [g EXCEPT !.suspiciousIPs =
                MapSet(@, ip, [existing EXCEPT !.count = @ + 1])])
    ELSE GuardResult(GuardNext,
           [g EXCEPT !.suspiciousIPs =
              MapSet(@, ip, [count |-> 1, firstSeen |-> now])])

\* The middleware blocking an origin without suspiciousIPs.delete(ip): the
\* entry stays, with the count that went over the threshold.
middleware_KeepsEntry(g, ip, now) ==
  IF ip \in g.blockedIPs
    THEN GuardResult(GuardBlocked, g)
  ELSE IF ip \in DOMAIN g.suspiciousIPs
    THEN LET existing == g.suspiciousIPs[ip] IN
      IF now - existing.firstSeen > WINDOW_SIZE
        THEN GuardResult(GuardNext,
               [g EXCEPT !.suspiciousIPs =
                  MapSet(@, ip, [count |-> 1, firstSeen |-> now])])
      ELSE IF existing.count + 1 > SUSPICIOUS_THRESHOLD
        THEN GuardResult(GuardBlocks,
               [g EXCEPT !.blockedIPs = @ \cup {ip},
                         !.suspiciousIPs =
                            MapSet(@, ip, [existing EXCEPT !.count = @ + 1]),
                         !.timers = @ \cup {[ip |-> ip,
                                             due |-> now + BLOCK_DURATION]}])
      ELSE GuardResult(GuardNext,
             [g EXCEPT !.suspiciousIPs =
                MapSet(@, ip, [existing EXCEPT !.count = @ + 1])])
    ELSE GuardResult(GuardNext,
           [g EXCEPT !.suspiciousIPs =
              MapSet(@, ip, [count |-> 1, firstSeen |-> now])])

\* The middleware setting a further timer for every request it answers 429
\* for a blocked origin.
middleware_RearmsTimer(g, ip, now) ==
  IF ip \in g.blockedIPs
    THEN GuardResult(GuardBlocked,
           [g EXCEPT !.timers = @ \cup {[ip |-> ip,
                                         due |-> now + BLOCK_DURATION]}])
  ELSE middleware_IgnoresBlocked(g, ip, now)

\* DDoSProtection.middleware for a request from ip at time now (Date.now()):
\* a blocked origin is answered 429; otherwise the request is counted in the
\* origin's window (a window older than WINDOW_SIZE starts again at 1), and
\* the request that takes the count above SUSPICIOUS_THRESHOLD blocks the
\* origin, drops its entry, sets the timer that unblocks it after
\* BLOCK_DURATION and is answered 429; every other request goes to next().
middleware(g, ip, now) ==
  IF ip \in g.blockedIPs
    THEN GuardResult(GuardBlocked, g)
  ELSE IF ip \in DOMAIN g.suspiciousIPs
    THEN LET existing == g.suspiciousIPs[ip] IN
      IF now - existing.firstSeen > WINDOW_SIZE
        THEN GuardResult(GuardNext,
               [g EXCEPT !.suspiciousIPs =
                  MapSet(@, ip, [count |-> 1, firstSeen |-> now])])
      ELSE IF existing.count + 1 > SUSPICIOUS_THRESHOLD
        THEN GuardResult(GuardBlocks,
               [g EXCEPT !.blockedIPs = @ \cup {ip},
                         !.suspiciousIPs = MapDelete(@, ip),
                         !.timers = @ \cup {[ip |-> ip,
                                             due |-> now + BLOCK_DURATION]}])
      ELSE GuardResult(GuardNext,
             [g EXCEPT !.suspiciousIPs =
                MapSet(@, ip, [existing EXCEPT !.count = @ + 1])])
    ELSE GuardResult(GuardNext,
           [g EXCEPT !.suspiciousIPs =
              MapSet(@, ip, [count |-> 1, firstSeen |-> now])])

\* A timer callback that leaves the origin blocked.
unblock_Keeps(blocked, ip) == blocked

\* The callback of setTimeout: this.blockedIPs.delete(ip)
unblock(blocked, ip) == blocked \ {ip}

\* cleanup() deleting every entry, current or not.
cleanup_All(sus, now) == EmptyMap

\* DDoSProtection.cleanup() at time now: the entries whose window has expired
\* are deleted.
cleanup(sus, now) ==
  [j \in {i \in DOMAIN sus : ~(now - sus[i].firstSeen > WINDOW_SIZE)} |-> sus[j]]

(* ------------------------------ requests ------------------------------ *)

\* A request that has not arrived yet.
Idle ==
  [pc |-> "idle", op |-> "none", address |-> "none", ip |-> "none",
   amount |-> 0, now |-> 0, limit |-> 0, allowed |-> FALSE,
   message |-> "none", transfer |-> "none", recorded |-> FALSE]

\* Requests arrive in the order of their numbers.
NextToArrive(t) ==
  /\ task[t].pc = "idle"
  /\ \A u \in Tasks : u < t => task[u].pc # "idle"

\* The request r has arrived: it calls op for address from ip at time clock.
Arrived(r, op, address, ip) ==
  [r EXCEPT !.op = op, !.address = address, !.ip = ip, !.now = clock,
            !.limit = maxAmount]

\* The operation of request r returns out and leaves r at pc; recorded tells
\* whether it inserted a row for r.
Returned(r, out, pc) ==
  [r EXCEPT !.pc = pc, !.allowed = out.allowed, !.message = out.message,
            !.amount = out.amount,
            !.recorded = Len(out.db) > Len(requests)]

\* The request r has been answered: its local variables are gone, what was
\* decided for it is kept.
Answered(r) ==
  [r EXCEPT !.pc = "done", !.ip = "none", !.now = 0, !.amount = 0]

Init ==
  /\ numberPerInterval \in 1..MaxPerInterval
  /\ maxAmount \in MaxAmounts
  /\ timeInterval \in TimeIntervals
  /\ requests = <<>>
  /\ clock = 0
  /\ task = [t \in Tasks |-> Idle]
  /\ suspiciousIPs = EmptyMap
  /\ blockedIPs = {}
  /\ timers = {}
  /\ log = <<>>

\* An environment variable that is not set, or set to the decimal text of n.
Unset == [set |-> FALSE, value |-> 0]
SetTo(n) == [set |-> TRUE, value |-> n]

\* parseInt(process.env.X || default) for a variable that is unset or holds
\* the decimal text of an integer: the integer, whatever its sign.
parseInt(env, default) == IF env.set THEN env.value ELSE default

\* The defaults of TIME_INTERVAL, NUMBER_PER_INTERVAL and MAX_AMOUNT.
DefaultTimeInterval == 86400
DefaultNumberPerInterval == 1
DefaultMaxAmount == 1000

\* The environments a server is started with: nothing set, and settings with
\* one limit that is zero or negative.
Environments ==
  {[TIME_INTERVAL |-> Unset, NUMBER_PER_INTERVAL |-> Unset,
    MAX_AMOUNT |-> Unset],
   [TIME_INTERVAL |-> SetTo(2), NUMBER_PER_INTERVAL |-> SetTo(0),
    MAX_AMOUNT |-> SetTo(60)],
   [TIME_INTERVAL |-> SetTo(2), NUMBER_PER_INTERVAL |-> SetTo(2),
    MAX_AMOUNT |-> SetTo(0)],
   [TIME_INTERVAL |-> SetTo(0), NUMBER_PER_INTERVAL |-> SetTo(1),
    MAX_AMOUNT |-> SetTo(60)],
   [TIME_INTERVAL |-> SetTo(-1), NUMBER_PER_INTERVAL |-> SetTo(1),
    MAX_AMOUNT |-> Unset]}

\* new FaucetServer(): the three limits are parsed from the environment and
\* stored as they are; the constructor tests none of them and never throws.
FaucetServer(env) ==
  [timeInterval |-> parseInt(env.TIME_INTERVAL, DefaultTimeInterval),
   numberPerInterval |-> parseInt(env.NUMBER_PER_INTERVAL,
                                  DefaultNumberPerInterval),
   maxAmount |-> parseInt(env.MAX_AMOUNT, DefaultMaxAmount)]

\* The state after the server has started in one of the environments.
InitStartup ==
  /\ \E env \in Environments :
       LET server == FaucetServer(env)
       IN /\ numberPerInterval = server.numberPerInterval
          /\ maxAmount = server.maxAmount
          /\ timeInterval = server.timeInterval
  /\ requests = <<>>
  /\ clock = 0
  /\ task = [t \in Tasks |-> Idle]
  /\ suspiciousIPs = EmptyMap
  /\ blockedIPs = {}
  /\ timers = {}
  /\ log = <<>>

\* A second passes.
Tick ==
  /\ clock < MaxTime
  /\ clock' = clock + 1
  /\ UNCHANGED <<config, requests, task, guard>>

\* The amounts a client puts in the body of POST /api/request.
Amounts == {-10, 0, 40, maxAmount, maxAmount + 1}

\* The handler of POST /api/request of index.ts up to its await of
\* transferTokens, for the request t: the validation of the body, then
\* checkSafeguards (forceBalanceUpdate touches only the balance cache). An
\* exception of checkSafeguards is caught by the handler, which answers 500.
HandleRequest(t) ==
  /\ \E address \in Addresses, amount \in Amounts, fault \in BOOLEAN :
       LET ip == ClientIP(t)
           r == Arrived(task[t], "checkSafeguards", address, ip)
           out == checkSafeguards(requests, address, amount, ip, clock, fault)
       IN
       IF amount = 0
         THEN /\ task' = [task EXCEPT ![t] =
                            Answered([r EXCEPT !.message = MsgRequired])]
              /\ UNCHANGED requests
         ELSE /\ requests' = out.db
              /\ task' = [task EXCEPT ![t] =
                            IF out.allowed THEN Returned(r, out, "transfer")
                            ELSE Answered(Returned(r, out, "done"))]
  /\ UNCHANGED <<config, clock, guard>>

\* POST /api/request arrives at its handler.
PostRequest(t) ==
  /\ NextToArrive(t)
  /\ HandleRequest(t)

\* transferTokens resolves for the handler of index.ts: it reports success or
\* failure (it catches what the ledger client throws), and the handler answers.
TransferTokens(t) ==
  /\ task[t].pc = "transfer"
  /\ task[t].op = "checkSafeguards"
  /\ \E success \in BOOLEAN :
       task' = [task EXCEPT ![t] =
                  Answered([task[t] EXCEPT !.transfer =
                              IF success THEN "success" ELSE "failed"])]
  /\ UNCHANGED <<config, requests, clock, guard>>

\* A call of checkAndRecordRequest(address, ip, demos) up to its first await:
\* now is read; without a ledger client the whole call runs at once, with one
\* it waits for demos.getAddressInfo.
CallCheckAndRecord(t) ==
  /\ NextToArrive(t)
  /\ \E address \in Addresses, demos \in BOOLEAN, fault \in Faults :
       LET ip == ClientIP(t)
           r == Arrived(task[t], "checkAndRecordRequest", address, ip)
           out == checkAndRecordRequest(requests, address, ip, clock,
                                        maxAmount, fault)
       IN
       IF demos
         THEN /\ fault = NoFault
              /\ task' = [task EXCEPT ![t] = [r EXCEPT !.pc = "lookup"]]
              /\ UNCHANGED requests
         ELSE /\ requests' = out.db
              /\ task' = [task EXCEPT ![t] = Answered(Returned(r, out, "done"))]
  /\ UNCHANGED <<config, clock, guard>>

\* demos.getAddressInfo settles and checkAndRecordRequest runs to its end.
ResumeCheckAndRecord(t) ==
  /\ task[t].pc = "lookup"
  /\ task[t].op = "checkAndRecordRequest"
  /\ \E lookup \in Lookups \ {"noDemos"}, fault \in Faults :
       LET r == [task[t] EXCEPT !.limit = IdentityLimit(maxAmount, lookup)]
           out == checkAndRecordRequest(requests, r.address, r.ip, r.now,
                                        r.limit, fault)
       IN
       /\ requests' = out.db
       /\ task' = [task EXCEPT ![t] = Answered(Returned(r, out, "done"))]
  /\ UNCHANGED <<config, clock, guard>>

\* Phase 1, a call of checkIfAllowed(address, ip, demos) up to its first
\* await. An allowed request goes on to the token transfer.
CallCheckIfAllowed(t) ==
  /\ NextToArrive(t)
  /\ \E address \in Addresses, demos \in BOOLEAN, fault \in Faults :
       LET ip == ClientIP(t)
           r == Arrived(task[t], "checkIfAllowed", address, ip)
           out == checkIfAllowed(requests, address, ip, clock, maxAmount, fault)
       IN
       IF demos
         THEN /\ fault = NoFault
              /\ task' = [task EXCEPT ![t] = [r EXCEPT !.pc = "lookup"]]
              /\ UNCHANGED requests
         ELSE /\ requests' = out.db
              /\ task' = [task EXCEPT ![t] =
                            IF out.allowed THEN Returned(r, out, "transfer")
                            ELSE Answered(Returned(r, out, "done"))]
  /\ UNCHANGED <<config, clock, guard>>

\* demos.getAddressInfo settles and checkIfAllowed runs to its end.
ResumeCheckIfAllowed(t) ==
  /\ task[t].pc = "lookup"
  /\ task[t].op = "checkIfAllowed"
  /\ \E lookup \in Lookups \ {"noDemos"}, fault \in Faults :
       LET r == [task[t] EXCEPT !.limit = IdentityLimit(maxAmount, lookup)]
           out == checkIfAllowed(requests, r.address, r.ip, r.now, r.limit,
                                 fault)
       IN
       /\ requests' = out.db
       /\ task' = [task EXCEPT ![t] =
                     IF out.allowed THEN Returned(r, out, "transfer")
                     ELSE Answered(Returned(r, out, "done"))]
  /\ UNCHANGED <<config, clock, guard>>

\* Phase 2: the token transfer of a request that checkIfAllowed allowed
\* settles; after a success the caller records the grant with
\* recordSuccessfulRequest(address, ip, amount), after a failure it records
\* nothing.
RecordAfterTransfer(t) ==
  /\ task[t].pc = "transfer"
  /\ task[t].op = "checkIfAllowed"
  /\ \E success \in BOOLEAN, fault \in BOOLEAN :
       LET r == task[t]
           db == recordSuccessfulRequest(requests, r.address, r.ip, r.amount,
                                         clock, fault).db
       IN
       IF success
         THEN /\ requests' = db
              /\ task' = [task EXCEPT ![t] =
                            Answered([r EXCEPT !.transfer = "success",
                                               !.recorded = Len(db) > Len(requests)])]
         ELSE /\ ~fault
              /\ UNCHANGED requests
              /\ task' = [task EXCEPT ![t] =
                            Answered([r EXCEPT !.transfer = "failed"])]
  /\ UNCHANGED <<config, clock, guard>>

\* app.use(ddosProtection.middleware) for the POST /api/request t of the
\* run: a request the middleware answers (429) is done, one it passes to
\* next() goes on to its route.
Middleware(t) ==
  /\ NextToArrive(t)
  /\ t <= MaxServerTasks
  /\ LET ip == ClientIP(t)
         m == middleware(GuardState(suspiciousIPs, blockedIPs, timers), ip, clock)
     IN /\ suspiciousIPs' = m.suspiciousIPs
        /\ blockedIPs' = m.blockedIPs
        /\ timers' = m.timers
        /\ task' = [task EXCEPT ![t] =
                      IF m.outcome = GuardNext
                        THEN [task[t] EXCEPT !.pc = "next"]
                        ELSE Answered([task[t] EXCEPT !.message = MsgBlocked])]
  /\ UNCHANGED <<config, requests, clock, log>>

\* The request t, passed on by the middleware, reaches the handler of
\* POST /api/request.
RoutePostRequest(t) ==
  /\ task[t].pc = "next"
  /\ HandleRequest(t)

\* A request to another route from ip goes through the middleware; log keeps
\* what the middleware did with it.
Request(ip) ==
  /\ Len(log) < MaxRequests
  /\ LET m == middleware(GuardState(suspiciousIPs, blockedIPs, timers), ip, clock)
     IN /\ suspiciousIPs' = m.suspiciousIPs
        /\ blockedIPs' = m.blockedIPs
        /\ timers' = m.timers
        /\ log' = Append(log, [ip |-> ip, time |-> clock,
                               outcome |-> m.outcome])
  /\ UNCHANGED <<config, requests, clock, task>>

\* The same call of the middleware in a run long enough for an origin to be
\* blocked, unblocked and blocked again.
RequestRepeat(ip) ==
  /\ Len(log) < MaxRepeatRequests
  /\ LET m == middleware(GuardState(suspiciousIPs, blockedIPs, timers), ip, clock)
     IN /\ suspiciousIPs' = m.suspiciousIPs
        /\ blockedIPs' = m.blockedIPs
        /\ timers' = m.timers
        /\ log' = Append(log, [ip |-> ip, time |-> clock,
                               outcome |-> m.outcome])
  /\ UNCHANGED <<config, requests, clock, task>>

\* The timer tm is due and its callback runs; the event loop may run it late.
Unblock(tm) ==
  /\ tm \in timers
  /\ clock >= tm.due
  /\ blockedIPs' = unblock(blockedIPs, tm.ip)
  /\ timers' = timers \ {tm}
  /\ UNCHANGED <<config, requests, clock, task, suspiciousIPs, log>>

\* setInterval(() => ddosProtection.cleanup(), ...) fires.
Cleanup ==
  /\ suspiciousIPs' = cleanup(suspiciousIPs, clock)
  /\ UNCHANGED <<config, requests, clock, task, blockedIPs, timers, log>>

\* Time passes for the guard: up to MaxGuardTime, and as long as a timer is
\* not due yet.
TickGuard ==
  /\ clock < MaxGuardTime \/ \E tm \in timers : tm.due > clock
  /\ clock' = clock + 1
  /\ UNCHANGED <<config, requests, task, guard>>

\* The DDoSProtection alone, in front of any route.
NextGuard ==
  \/ TickGuard
  \/ \E ip \in Origins : Request(ip)
  \/ \E tm \in timers : Unblock(tm)
  \/ Cleanup

SpecGuard == Init /\ [][NextGuard]_vars

\* The DDoSProtection with origins that keep sending after a block has ended.
NextGuardRepeat ==
  \/ TickGuard
  \/ \E ip \in Origins : RequestRepeat(ip)
  \/ \E tm \in timers : Unblock(tm)
  \/ Cleanup

SpecGuardRepeat == Init /\ [][NextGuardRepeat]_vars

\* The same with time that goes on and an event loop that runs due timers.
SpecGuardFair ==
  /\ SpecGuard
  /\ WF_vars(TickGuard)
  /\ WF_vars(\E tm \in timers : Unblock(tm))

\* The server of index.ts: every request passes the middleware, and a
\* POST /api/request that is passed on is served by the handler.
NextServer ==
  \/ Tick
  \/ \E t \in Tasks : Middleware(t)
  \/ \E t \in Tasks : RoutePostRequest(t)
  \/ \E t \in Tasks : TransferTokens(t)
  \/ \E ip \in Origins : Request(ip)
  \/ \E tm \in timers : Unblock(tm)
  \/ Cleanup

SpecServer == Init /\ [][NextServer]_vars

\* The server of the second Safeguards class: callers of checkAndRecordRequest
\* and of the two-phase protocol side by side.
Next ==
  \/ Tick
  \/ \E t \in Tasks : CallCheckAndRecord(t)
  \/ \E t \in Tasks : ResumeCheckAndRecord(t)
  \/ \E t \in Tasks : CallCheckIfAllowed(t)
  \/ \E t \in Tasks : ResumeCheckIfAllowed(t)
  \/ \E t \in Tasks : RecordAfterTransfer(t)

Spec == Init /\ [][Next]_vars

\* The server of the first Safeguards class: every request is served by the
\* handler of index.ts, which calls checkSafeguards.
NextHandler ==
  \/ Tick
  \/ \E t \in Tasks : PostRequest(t)
  \/ \E t \in Tasks : TransferTokens(t)

SpecHandler == Init /\ [][NextHandler]_vars

\* The same server, started by the constructor in any environment.
SpecStartup == InitStartup /\ [][NextHandler]_vars

\* Callers of the single-phase checkAndRecordRequest only.
NextAtomic ==
  \/ Tick
  \/ \E t \in Tasks : CallCheckAndRecord(t)
  \/ \E t \in Tasks : ResumeCheckAndRecord(t)

SpecAtomic == Init /\ [][NextAtomic]_vars

\* Callers of the two-phase protocol only.
NextTwoPhase ==
  \/ Tick
  \/ \E t \in Tasks : CallCheckIfAllowed(t)
  \/ \E t \in Tasks : ResumeCheckIfAllowed(t)
  \/ \E t \in Tasks : RecordAfterTransfer(t)

SpecTwoPhase == Init /\ [][NextTwoPhase]_vars

(* ------------------------------- claims ------------------------------- *)

Min(a, b) == IF a < b THEN a ELSE b

\* The ceilings an address can be decided with: the base one, the identity one.
Limits == {maxAmount, IdentityMaxAmount}

\* Every request has arrived and has been answered.
AllDone == \A t \in Tasks : task[t].pc = "done"

\* All the requests of the run were calls of checkAndRecordRequest for one
\* address, made and answered inside one window (the clock starts at 0).
ConcurrentCalls ==
  /\ AllDone
  /\ \A t \in Tasks : task[t].op = "checkAndRecordRequest"
  /\ \A t \in Tasks : task[t].address = task[1].address
  /\ clock < timeInterval
  /\ numberPerInterval < NumTasks

Committed == {t \in Tasks : task[t].recorded}
Denials == {t \in Tasks : ~task[t].allowed}
NoStoreError == \A t \in Tasks : task[t].message # MsgError

\* C1 as stated: N concurrent checkAndRecordRequest calls for one address in
\* one window, numberPerInterval = k < N, no store error: exactly k rows are
\* committed and N - k calls are denied.
C1_ExactlyK ==
  (ConcurrentCalls /\ NoStoreError) =>
     /\ Len(requests) = numberPerInterval
     /\ Cardinality(Denials) = NumTasks - numberPerInterval

\* C1 amended: N concurrent checkAndRecordRequest calls for one address in one
\* window, numberPerInterval = k < N: never more than k rows are committed,
\* a call commits a row exactly when it is allowed, so every other call is a
\* denial; with no store error at least one row is committed, and exactly one
\* when all calls saw the same ceiling (the first grant takes all of it).
C1_AtMostK ==
  ConcurrentCalls =>
     /\ Len(requests) <= numberPerInterval
     /\ Committed = Tasks \ Denials
     /\ Len(requests) = Cardinality(Committed)
     /\ Len(requests) + Cardinality(Denials) = NumTasks
     /\ NoStoreError => Len(requests) >= 1
     /\ (NoStoreError /\ \A t \in Tasks : task[t].limit = task[1].limit)
          => Len(requests) = 1

\* C1 witness: three answered concurrent calls, k = 2, no store error, and
\* one single row committed.
C1_Witness ==
  /\ ConcurrentCalls
  /\ NoStoreError
  /\ numberPerInterval = 2
  /\ Len(requests) = 1
  /\ Cardinality(Denials) = NumTasks - 1

\* The ids of the rows of address inside the window that ends at time end.
InWindow(db, address, end) ==
  {i \in 1..Len(db) : /\ db[i].address = address
                      /\ db[i].timestamp > end - timeInterval
                      /\ db[i].timestamp <= end}

\* C2 as stated: in every reachable state of the two-phase protocol, no
\* address has more than numberPerInterval rows inside the current window.
C2_CountWithinLimit ==
  \A a \in Addresses :
    Cardinality(Recent(requests, a, clock - timeInterval)) <= numberPerInterval

\* C3 as stated: in every reachable state, for every address and every window
\* of length timeInterval, the amounts of the address's rows inside the window
\* sum to at most its ceiling (here the larger of the base and identity one).
C3_SumWithinCeiling ==
  \A a \in Addresses, end \in 0..MaxTime :
    SumAmount(requests, InWindow(requests, a, end))
      <= IF maxAmount > IdentityMaxAmount THEN maxAmount ELSE IdentityMaxAmount

\* C4 as stated: the phase-2 commit appends a row only if, on the table as it
\* is at commit time, the address is below its count limit and below the
\* ceiling it was checked with.
C4_CommitRevalidates ==
  [][\A t \in Tasks :
       (/\ task[t].pc = "transfer"
        /\ task'[t].pc = "done"
        /\ Len(requests') > Len(requests))
       => LET stats == RecentRequests(requests, task[t].address,
                                      clock - timeInterval)
          IN /\ stats.request_count < numberPerInterval
             /\ stats.total_amount < task[t].limit]_vars

\* C5 as stated: a request of the handler has a row recorded for it only once
\* its transfer has reported success; a request whose transfer failed has none.
C5_RecordedOnlyAfterSuccess ==
  \A t \in Tasks : task[t].recorded => task[t].transfer = "success"

\* C6: checkIfAllowed leaves the requests table as it found it on every path
\* (allowed, denied, store error), and so does a transfer that fails after it:
\* the request ends with no row recorded for it.
C6_CheckIsReadOnly ==
  [][\A t \in Tasks :
       /\ (task[t].pc \in {"idle", "lookup"} /\ task'[t] # task[t])
            => (requests' = requests /\ ~task'[t].recorded)
       /\ (task[t].pc = "transfer" /\ task'[t].transfer = "failed")
            => (requests' = requests /\ ~task'[t].recorded)]_vars

\* C6 witness: checkIfAllowed allowed a request, its transfer failed, and the
\* table is still empty.
C6_Witness ==
  \E t \in Tasks :
    /\ task[t].op = "checkIfAllowed"
    /\ task[t].pc = "done"
    /\ task[t].allowed
    /\ task[t].transfer = "failed"
    /\ requests = <<>>

\* What an operation returns, without the table it leaves.
Decision(out) ==
  [allowed |-> out.allowed, message |-> out.message, amount |-> out.amount]

\* C7: in every reachable state, for every address, ceiling and time of call,
\* when the address has fewer than numberPerInterval rows in the window and
\* remaining = ceiling - total is positive, checkAndRecordRequest and
\* checkIfAllowed allow the request with amount min(ceiling, remaining), and
\* checkAndRecordRequest records a row of that amount.
C7_GrantIsMinOfCeilingAndRemaining ==
  \A a \in Addresses, limit \in Limits, now \in 0..clock :
    LET stats == RecentRequests(requests, a, now - timeInterval)
        remaining == limit - stats.total_amount
        rec == checkAndRecordRequest(requests, a, "ip1", now, limit, NoFault)
        chk == checkIfAllowed(requests, a, "ip1", now, limit, NoFault)
    IN (stats.request_count < numberPerInterval /\ remaining > 0) =>
         /\ rec.allowed /\ rec.amount = Min(limit, remaining)
         /\ Len(rec.db) = Len(requests) + 1
         /\ rec.db[Len(rec.db)].amount = Min(limit, remaining)
         /\ chk.allowed /\ chk.amount = Min(limit, remaining)

\* C7 witness: a partial fill was recorded: a row of the whole base ceiling
\* and, in the same window, a later row of the same address that fills what
\* the identity ceiling leaves (ceiling 100, prior total 60 gives 40).
C7_Witness ==
  \E i, j \in 1..Len(requests) :
    /\ i < j
    /\ requests[i].address = requests[j].address
    /\ requests[j].timestamp - requests[i].timestamp < timeInterval
    /\ requests[i].timestamp <= requests[j].timestamp
    /\ requests[i].amount = maxAmount
    /\ requests[j].amount = IdentityMaxAmount - maxAmount
    /\ requests[j].amount > 0

\* C8 as stated: every row ever recorded has a strictly positive amount.
C8_AmountsPositive ==
  \A i \in 1..Len(requests) : requests[i].amount > 0

C10_OldGrantsDoNotCount ==
  \A a \in Addresses, limit \in Limits, now \in 0..clock :
    LET Live(r) == r.timestamp > now - timeInterval
        Other(r) == r.address # a
        live == SelectSeq(requests, Live)
        others == SelectSeq(requests, Other)
        rec == checkAndRecordRequest(requests, a, "ip1", now, limit, NoFault)
        chk == checkIfAllowed(requests, a, "ip1", now, limit, NoFault)
    IN /\ Decision(rec) =
            Decision(checkAndRecordRequest(live, a, "ip1", now, limit, NoFault))
       /\ Decision(chk) =
            Decision(checkIfAllowed(live, a, "ip1", now, limit, NoFault))
       /\ (\A i \in 1..Len(requests) :
              requests[i].address = a
                => requests[i].timestamp <= now - timeInterval)
            => /\ Decision(rec) =
                    Decision(checkAndRecordRequest(others, a, "ip1", now,
                                                   limit, NoFault))
               /\ rec.allowed /\ rec.amount = limit
               /\ chk.allowed /\ chk.amount = limit

\* C10 witness: with numberPerInterval = 1, an address was granted a whole
\* ceiling at t0 and again a whole ceiling at t0 + timeInterval + 1.
C10_Witness ==
  \E i, j \in 1..Len(requests) :
    /\ numberPerInterval = 1
    /\ requests[i].address = requests[j].address
    /\ requests[j].timestamp = requests[i].timestamp + timeInterval + 1
    /\ requests[i].amount \in Limits
    /\ requests[j].amount \in Limits

\* The statements of a transaction block that fault can make throw in a call
\* that is decided as out when nothing throws: BEGIN and the query always,
\* INSERT and COMMIT when the block reaches them.
Reached(out, inserts) ==
  {"begin", "query"} \cup
    (IF inserts /\ out.allowed THEN {"insert", "commit"} ELSE {})

\* C11: in every reachable state, for every address, ceiling and statement of
\* the transaction block that throws when it is reached (BEGIN, the query,
\* INSERT, COMMIT): checkAndRecordRequest and checkIfAllowed return (they do
\* not throw) allowed = false with the error message, the transaction is
\* closed by the rollback, and the table holds exactly the rows it held; and
\* no request answered with the error message has a row recorded for it.
C11_StoreErrorLeavesTableUnchanged ==
  /\ \A a \in Addresses, limit \in Limits :
       LET rec0 == checkAndRecordRequest(requests, a, "ip1", clock, limit,
                                         NoFault)
           chk0 == checkIfAllowed(requests, a, "ip1", clock, limit, NoFault)
       IN /\ \A fault \in Reached(rec0, TRUE) :
               LET rec == checkAndRecordRequest(requests, a, "ip1", clock,
                                                limit, fault)
               IN /\ ~rec.allowed
                  /\ rec.message = MsgError
                  /\ ~rec.open
                  /\ rec.db = requests
          /\ \A fault \in Reached(chk0, FALSE) :
               LET chk == checkIfAllowed(requests, a, "ip1", clock, limit,
                                         fault)
               IN /\ ~chk.allowed
                  /\ chk.message = MsgError
                  /\ ~chk.open
                  /\ chk.db = requests
  /\ \A t \in Tasks :
       (task[t].pc = "done" /\ task[t].message = MsgError)
         => (~task[t].allowed /\ ~task[t].recorded)

\* C11 witness: a call of checkAndRecordRequest was answered with the error
\* message while the table held a row, a later call for the same address was
\* allowed, and the table holds the rows of the allowed calls only.
C11_Witness ==
  \E t, u, v \in Tasks :
    /\ t < u /\ u < v
    /\ task[t].recorded
    /\ task[u].pc = "done" /\ task[u].message = MsgError
    /\ task[v].recorded /\ task[v].address = task[u].address
    /\ Len(requests) = 2

\* C18 as stated: the ceiling of an address that carries an identity is at
\* least the base ceiling, whatever maxAmount the server is started with: no
\* answered call was decided with a ceiling below maxAmount, and the first
\* grant recorded for an address (no prior grant) is at least maxAmount, what
\* an address without identity is granted.
C18_IdentityRaisesCeiling ==
  /\ \A t \in Tasks : task[t].pc = "done" => task[t].limit >= maxAmount
  /\ \A i \in 1..Len(requests) :
       (\A j \in 1..(i - 1) : requests[j].address # requests[i].address)
         => requests[i].amount >= maxAmount

\* C19 as stated: in every reachable state, for an address whose rows are k
\* >= 1 rows of one amount, all inside the current window, and whose answered
\* calls were all decided with the ceiling c: getAddressStats reports
\* totalRequests = k, totalAmount = k * amount, remainingRequests =
\* max(0, numberPerInterval - k) and remainingAmount = c - k * amount.
C19_StatsAfterGrants ==
  \A a \in Addresses, c \in Limits :
    LET rows == {i \in 1..Len(requests) : requests[i].address = a}
        ids == Recent(requests, a, clock - timeInterval)
        k == Cardinality(ids)
        stats == getAddressStats(requests, a, clock)
    IN (/\ k >= 1
        /\ rows = ids
        /\ \A i, j \in ids : requests[i].amount = requests[j].amount
        /\ \A t \in Tasks :
             (task[t].pc = "done" /\ task[t].address = a) => task[t].limit = c)
       => LET amount == requests[CHOOSE i \in ids : TRUE].amount
          IN /\ stats.totalRequests = k
             /\ stats.totalAmount = k * amount
             /\ stats.remainingRequests = Max(0, numberPerInterval - k)
             /\ stats.remainingAmount = c - k * amount

C22_OverMaximumDenied ==
  /\ [](\A a \in Addresses, amount \in Amounts, fault \in BOOLEAN :
          LET cs == checkSafeguards(requests, a, amount, "ip1", clock, fault)
          IN amount > maxAmount =>
               /\ ~cs.allowed
               /\ cs.message = MsgExceedsMaximum
               /\ cs.db = requests)
  /\ [][\A t \in Tasks :
          (task[t].pc # "done" /\ task'[t].message = MsgExceedsMaximum)
            => /\ task'[t].pc = "done"
               /\ ~task'[t].allowed
               /\ ~task'[t].recorded
               /\ requests' = requests]_vars

\* C22 witness: an address with a grant in the window, at its request count,
\* asked for more than maxAmount and was denied with the 'exceeds maximum'
\* message; the table holds the one grant.
C22_Witness ==
  \E t, u \in Tasks :
    /\ t < u
    /\ task[t].address = task[u].address
    /\ task[t].recorded
    /\ numberPerInterval = 1
    /\ task[u].pc = "done" /\ ~task[u].allowed /\ ~task[u].recorded
    /\ task[u].message = MsgExceedsMaximum
    /\ Len(requests) = 1
    /\ requests[1].timestamp > clock - timeInterval

\* C23: a denial writes nothing. In every reachable state, for every address,
\* ceiling and amount: when checkAndRecordRequest denies (request count, amount
\* limit) or checkSafeguards denies (amount over maximum, request count, amount
\* limit), the table it leaves is the table it found, so getAddressStats
\* reports the same counts and the next call is decided the same; and every
\* step in which a request is answered with a denial leaves the table
\* unchanged and no row recorded for the request.
C23_DenialWritesNothing ==
  /\ [](\A a \in Addresses :
          /\ \A limit \in Limits :
               LET rec == checkAndRecordRequest(requests, a, "ip1", clock,
                                                limit, NoFault)
               IN ~rec.allowed =>
                    /\ rec.message \in {MsgNumberOfRequests, MsgAmountLimit}
                    /\ rec.db = requests
                    /\ ~rec.open
                    /\ getAddressStats(rec.db, a, clock)
                         = getAddressStats(requests, a, clock)
                    /\ Decision(checkAndRecordRequest(rec.db, a, "ip1", clock,
                                                      limit, NoFault))
                         = Decision(rec)
          /\ \A amount \in Amounts :
               LET cs == checkSafeguards(requests, a, amount, "ip1", clock,
                                         FALSE)
               IN ~cs.allowed =>
                    /\ cs.message \in {MsgExceedsMaximum, MsgNumberOfRequests,
                                       MsgWouldExceed}
                    /\ cs.db = requests)
  /\ [][\A t \in Tasks :
          (task[t].pc # "done" /\ task'[t].pc = "done" /\ ~task'[t].allowed)
            => /\ requests' = requests
               /\ ~task'[t].recorded]_vars

\* C23 witness: after one grant, two more requests of the same address in the
\* same window were denied, one of them with the amount-limit message; the
\* table holds the one grant and getAddressStats counts one request.
C23_Witness ==
  /\ \A t \in Tasks : task[t].pc = "done" /\ task[t].address = task[1].address
  /\ task[1].recorded
  /\ ~task[2].allowed /\ ~task[3].allowed
  /\ task[2].message = MsgAmountLimit
  /\ task[3].message \in {MsgAmountLimit, MsgNumberOfRequests}
  /\ Len(requests) = 1
  /\ requests[1].timestamp > clock - timeInterval
  /\ getAddressStats(requests, task[1].address, clock).totalRequests = 1

RECURSIVE SumOver(_, _)
\* The sum of f[x] over the x of S.
SumOver(f, S) ==
  IF S = {} THEN 0
  ELSE LET x == CHOOSE y \in S : TRUE IN f[x] + SumOver(f, S \ {x})

\* C24: getGlobalStats reads the whole table, not a window. In every reachable
\* state of the handler and for every result its top-addresses query can
\* return: totalRequests is the number of rows, which is the number of
\* requests allowed so far; totalAmount is the sum of the per-address sums
\* of all rows; uniqueAddresses is the number of addresses that were allowed a
\* request; requestsPerHour is the number of rows less than OneHour old;
\* topAddresses lists min(TopLimit, uniqueAddresses) distinct addresses with
\* their sums and counts over all rows, in descending order of sum, and no
\* address left out has a larger sum than a listed one. And every step that
\* allows a request of some amount raises totalRequests by 1 and totalAmount
\* by that amount, and every other step leaves both as they are.
C24_GlobalStats ==
  /\ [](\A top \in TopAddresses(requests) :
          LET g == getGlobalStats(requests, clock, top)
              total == [a \in Addresses |->
                          SumAmount(requests, RowsOf(requests, a))]
              listed == {top[i].address : i \in 1..Len(top)}
          IN /\ g.totalRequests = Len(requests)
             /\ g.totalRequests = Cardinality(Committed)
             /\ g.totalAmount = SumOver(total, Addresses)
             /\ g.uniqueAddresses
                  = Cardinality({task[t].address : t \in Committed})
             /\ g.requestsPerHour
                  = Cardinality({i \in 1..Len(requests) :
                                   clock - requests[i].timestamp < OneHour})
             /\ Len(g.topAddresses) <= TopLimit
             /\ Len(g.topAddresses) = Min(TopLimit, g.uniqueAddresses)
             /\ Cardinality(listed) = Len(top)
             /\ \A i \in 1..Len(top) :
                  /\ top[i].totalAmount = total[top[i].address]
                  /\ top[i].requestCount
                       = Cardinality(RowsOf(requests, top[i].address))
                  /\ top[i].requestCount >= 1
                  /\ \A j \in 1..Len(top) :
                       i < j => top[i].totalAmount >= top[j].totalAmount
                  /\ \A a \in AddressesOf(requests) \ listed :
                       total[a] <= top[i].totalAmount)
  /\ [][LET g == getGlobalStats(requests, clock, <<>>)
              g2 == getGlobalStats(requests', clock', <<>>)
              granted == {t \in Tasks : task[t].pc # "transfer"
                                        /\ task'[t].pc = "transfer"}
          IN /\ \A t \in granted :
                  /\ g2.totalRequests = g.totalRequests + 1
                  /\ g2.totalAmount = g.totalAmount + task'[t].amount
             /\ granted = {} =>
                  /\ g2.totalRequests = g.totalRequests
                  /\ g2.totalAmount = g.totalAmount]_vars

\* C24 witness: the table holds a row that is OneHour old or older and
\* outside the quota window, and newer rows; two addresses have rows, with
\* different sums, so that the top addresses leave one out; requestsPerHour is
\* below totalRequests.
C24_Witness ==
  \E top \in TopAddresses(requests) :
    LET g == getGlobalStats(requests, clock, top)
    IN /\ g.totalRequests = 3
       /\ g.uniqueAddresses = 2
       /\ g.requestsPerHour = 2
       /\ \E i \in 1..Len(requests) :
            /\ requests[i].timestamp <= clock - OneHour
            /\ requests[i].timestamp <= clock - timeInterval
       /\ Len(top) = TopLimit
       /\ \E a \in AddressesOf(requests) :
            SumAmount(requests, RowsOf(requests, a)) < top[1].totalAmount

\* C25: no transaction outlives the call that began it. In every reachable
\* state, for every address, ceiling and statement that may throw:
\* checkAndRecordRequest and checkIfAllowed return with the transaction
\* closed, whether they allow (COMMIT, ROLLBACK), deny (ROLLBACK) or catch an
\* error (ROLLBACK of the catch block); and every step that answers a request
\* is the whole of such a call, from BEGIN to the statement that closes the
\* transaction, so a caller never starts a transfer with one open.
C25_TransactionClosedOnReturn ==
  /\ [](\A a \in Addresses, limit \in Limits, fault \in Faults :
          /\ ~checkAndRecordRequest(requests, a, "ip1", clock, limit,
                                    fault).open
          /\ ~checkIfAllowed(requests, a, "ip1", clock, limit, fault).open)
  /\ [][\A t \in Tasks :
          (task[t].pc # "done" /\ task'[t].pc = "done")
            => \E fault \in Faults :
                 LET now == IF task[t].pc = "lookup" THEN task[t].now
                            ELSE clock
                     rec == checkAndRecordRequest(requests, task'[t].address,
                                                  ClientIP(t), now,
                                                  task'[t].limit, fault)
                 IN /\ rec.allowed = task'[t].allowed
                    /\ rec.message = task'[t].message
                    /\ rec.db = requests'
                    /\ ~rec.open]_vars

\* C25 witness: three calls of checkAndRecordRequest for one address have
\* returned, one by each way out of the transaction: the first committed its
\* row, the second caught a store error, the third was denied; the table
\* holds the one committed row.
C25_Witness ==
  /\ \A t \in Tasks : task[t].pc = "done" /\ task[t].address = task[1].address
  /\ task[1].allowed /\ task[1].recorded
  /\ ~task[2].allowed /\ task[2].message = MsgError
  /\ ~task[3].allowed /\ task[3].message = MsgNumberOfRequests
  /\ Len(requests) = 1

\* C26 as stated: in every reachable state of the two-phase protocol, every
\* request whose transfer succeeded has a row recorded for it, and the table
\* holds one row per request that has one recorded, so no request has two.
C26_OneRecordPerServedRequest ==
  /\ \A t \in Tasks : task[t].transfer = "success" => task[t].recorded
  /\ Len(requests) = Cardinality(Committed)

\* The table db2 holds the rows of db, unchanged and in place, and possibly
\* more after them.
Extends(db2, db) ==
  /\ Len(db2) >= Len(db)
  /\ \A i \in 1..Len(db) : db2[i] = db[i]

\* C27: the requests table is append-only. Every step of the server leaves
\* every stored row as it is, so the table only grows and the totalRequests
\* of getGlobalStats never decreases; and in every reachable state each
\* operation (checkAndRecordRequest, checkIfAllowed, recordSuccessfulRequest,
\* checkSafeguards), whatever it decides and whichever statement throws,
\* leaves a table that holds the rows it found and at most one more.
C27_AppendOnly ==
  /\ [][/\ Extends(requests', requests)
        /\ getGlobalStats(requests', clock', <<>>).totalRequests
             >= getGlobalStats(requests, clock, <<>>).totalRequests]_vars
  /\ [](\A a \in Addresses :
          /\ \A limit \in Limits, fault \in Faults :
               LET rec == checkAndRecordRequest(requests, a, "ip1", clock,
                                                limit, fault)
                   chk == checkIfAllowed(requests, a, "ip1", clock, limit,
                                         fault)
               IN /\ Extends(rec.db, requests)
                  /\ Len(rec.db) <= Len(requests) + 1
                  /\ chk.db = requests
          /\ \A amount \in Amounts, fault \in BOOLEAN :
               LET cs == checkSafeguards(requests, a, amount, "ip1", clock,
                                         fault)
                   rsr == recordSuccessfulRequest(requests, a, "ip1", amount,
                                                  clock, fault)
               IN /\ Extends(cs.db, requests)
                  /\ Len(cs.db) <= Len(requests) + 1
                  /\ Extends(rsr.db, requests)
                  /\ Len(rsr.db) <= Len(requests) + 1)

\* C27 witness: three rows were recorded, the first of them has left the
\* quota window and is still stored, and a later request of its address was
\* granted on top of it.
C27_Witness ==
  /\ Len(requests) = 3
  /\ requests[1].timestamp <= clock - timeInterval
  /\ requests[3].address = requests[1].address
  /\ requests[3].timestamp > requests[1].timestamp + timeInterval
  /\ getGlobalStats(requests, clock, <<>>).totalRequests = 3

\* C31 as stated: a server whose numberPerInterval, maxAmount or timeInterval
\* is zero or negative does not run: in every reachable state with such a
\* configuration no request has been decided and no row recorded.
C31_NonPositiveConfigRejected ==
  (numberPerInterval <= 0 \/ maxAmount <= 0 \/ timeInterval <= 0)
    => /\ \A t \in Tasks : task[t].pc = "idle"
       /\ requests = <<>>

(* --------------------------- claims: the guard ------------------------ *)

\* The positions in the log of the requests from ip.
From(ip) == {i \in 1..Len(log) : log[i].ip = ip}

\* The position of the last request from ip before position i (0: none).
Previous(ip, i) ==
  IF \E j \in From(ip) : j < i
    THEN CHOOSE j \in From(ip) : j < i /\ \A k \in From(ip) : k < i => k <= j
    ELSE 0

\* The position of the last request that blocked ip before position i (0: none).
LastBlock(ip, i) ==
  IF \E j \in From(ip) : j < i /\ log[j].outcome = GuardBlocks
    THEN CHOOSE j \in From(ip) :
           /\ j < i /\ log[j].outcome = GuardBlocks
           /\ \A k \in From(ip) :
                (k < i /\ log[k].outcome = GuardBlocks) => k <= j
    ELSE 0

\* C12: in every reachable state, for every request that blocked an origin at
\* time b: every later request from that origin that arrived before
\* b + BLOCK_DURATION was answered 429 as blocked and not passed to next(), and
\* while the clock is before b + BLOCK_DURATION the origin is in blockedIPs.
C12_BlockedUntilDeadline ==
  \A i \in 1..Len(log) :
    log[i].outcome = GuardBlocks =>
      /\ \A j \in From(log[i].ip) :
           (j > i /\ log[j].time < log[i].time + BLOCK_DURATION)
             => log[j].outcome = GuardBlocked
      /\ clock < log[i].time + BLOCK_DURATION => log[i].ip \in blockedIPs

\* C12 witness: an origin was blocked at time b and a request from it that
\* arrived later, before b + BLOCK_DURATION, was answered as blocked.
C12_Witness ==
  \E i, j \in 1..Len(log) :
    /\ i < j
    /\ log[i].ip = log[j].ip
    /\ log[i].outcome = GuardBlocks
    /\ log[j].outcome = GuardBlocked
    /\ log[j].time > log[i].time
    /\ log[j].time < log[i].time + BLOCK_DURATION

\* C13: in every reachable state: a tracked origin's count is the number of
\* its requests passed to next() since the start of its window, between 1
\* and SUSPICIOUS_THRESHOLD, all inside the window and none of its requests
\* answered 429 after them;
\* a request blocks its origin only as the (threshold + 1)-th of a window,
\* that is after SUSPICIOUS_THRESHOLD requests of the origin that were all
\* passed on, the first of them at most WINDOW_SIZE earlier; and as long as
\* the block it makes lasts, the origin's one timer is the one due at its
\* time + BLOCK_DURATION.
C13_BlockAtThresholdPlusOne ==
  /\ \A ip \in DOMAIN suspiciousIPs :
       LET e == suspiciousIPs[ip]
           window == {i \in From(ip) : /\ log[i].time >= e.firstSeen
                                        /\ log[i].outcome = GuardNext}
       IN /\ e.count >= 1 /\ e.count <= SUSPICIOUS_THRESHOLD
          /\ e.count = Cardinality(window)
          /\ \A i \in window : log[i].time <= e.firstSeen + WINDOW_SIZE
          /\ \A i \in From(ip) : \A j \in window : i > j => i \in window
  /\ \A i \in 1..Len(log) :
       log[i].outcome = GuardBlocks =>
         LET ip == log[i].ip
             before == {j \in From(ip) : j < i /\ j > LastBlock(ip, i)}
         IN \E window \in SUBSET before :
              /\ Cardinality(window) = SUSPICIOUS_THRESHOLD
              /\ \A j \in window :
                   /\ log[j].outcome = GuardNext
                   /\ log[i].time - log[j].time <= WINDOW_SIZE
                   /\ \A k \in before : k > j => k \in window
              /\ (ip \in blockedIPs /\ LastBlock(ip, Len(log) + 1) = i)
                   => timers \cap {tm \in timers : tm.ip = ip}
                        = {[ip |-> ip, due |-> log[i].time + BLOCK_DURATION]}

\* C13 witness: the first SUSPICIOUS_THRESHOLD requests of an origin were
\* passed on, the next one, in the same window but later than the first,
\* blocked it, and its timer is pending.
C13_Witness ==
  \E ip \in Origins :
    /\ Cardinality(From(ip)) = SUSPICIOUS_THRESHOLD + 1
    /\ \E i \in From(ip) :
         /\ log[i].outcome = GuardBlocks
         /\ \A j \in From(ip) \ {i} : j < i /\ log[j].outcome = GuardNext
         /\ \E j \in From(ip) : log[j].time < log[i].time
         /\ ip \in blockedIPs
         /\ [ip |-> ip, due |-> log[i].time + BLOCK_DURATION] \in timers

\* UNSEEN: the origin is neither blocked nor tracked.
Unseen(ip) == ip \notin blockedIPs /\ ip \notin DOMAIN suspiciousIPs

\* C14: with time that goes on and due timers that run, every origin that is
\* blocked is later unseen again (neither blocked nor tracked); and always, a
\* request from an unseen origin is passed to next() and leaves the origin
\* tracked with count 1 and the window starting now, and an origin whose last
\* request was passed on right after a 429 is, while tracked, tracked with
\* count 1 since that request.
C14_BlockedEventuallyUnseen ==
  /\ \A ip \in Origins : (ip \in blockedIPs) ~> Unseen(ip)
  /\ [](\A ip \in Origins :
          /\ Unseen(ip) =>
               LET m == middleware(GuardState(suspiciousIPs, blockedIPs, timers),
                                   ip, clock)
               IN /\ m.outcome = GuardNext
                  /\ ip \notin m.blockedIPs
                  /\ m.suspiciousIPs[ip] = [count |-> 1, firstSeen |-> clock]
          /\ \A i \in From(ip) :
               (/\ \A j \in From(ip) : j <= i
                /\ log[i].outcome = GuardNext
                /\ Previous(ip, i) # 0
                /\ log[Previous(ip, i)].outcome # GuardNext
                /\ ip \in DOMAIN suspiciousIPs)
               => suspiciousIPs[ip] = [count |-> 1, firstSeen |-> log[i].time])

\* C14 witness: an origin was blocked at time b, its timer has run, and a
\* request from it at b + BLOCK_DURATION or later was passed on and left it
\* tracked with count 1.
C14_Witness ==
  \E ip \in Origins : \E i, j \in From(ip) :
    /\ i < j
    /\ log[i].outcome = GuardBlocks
    /\ log[j].outcome = GuardNext
    /\ log[j].time >= log[i].time + BLOCK_DURATION
    /\ \A k \in From(ip) : k <= j
    /\ ip \notin blockedIPs
    /\ timers = {}
    /\ suspiciousIPs[ip] = [count |-> 1, firstSeen |-> log[j].time]

\* C15 as stated: in every reachable state, for every request that blocked an
\* origin at time b: no later request from that origin that arrived after
\* b + BLOCK_DURATION, with no newer block of the origin in between, was
\* answered as blocked, whether or not the timer has run.
C15_ExpiredBlockNotEnforced ==
  \A i \in 1..Len(log) :
    log[i].outcome = GuardBlocks =>
      \A j \in From(log[i].ip) :
        (/\ j > i
         /\ LastBlock(log[i].ip, j) = i
         /\ log[j].time > log[i].time + BLOCK_DURATION)
        => log[j].outcome # GuardBlocked

\* The origin never sent more than SUSPICIOUS_THRESHOLD requests within an
\* interval [t, t + WINDOW_SIZE] (it is enough to look at the intervals that
\* start with one of its requests).
LowVolume(ip) ==
  \A i \in From(ip) :
    Cardinality({j \in From(ip) : /\ log[j].time >= log[i].time
                                  /\ log[j].time <= log[i].time + WINDOW_SIZE})
      <= SUSPICIOUS_THRESHOLD

\* C16: in every reachable state, an origin that never sent more than
\* SUSPICIOUS_THRESHOLD requests within an interval of length WINDOW_SIZE
\* (ends included) is not blocked and never was, and every one of its
\* requests was passed to next().
C16_LowVolumeNeverBlocked ==
  \A ip \in Origins :
    LowVolume(ip) =>
      /\ ip \notin blockedIPs
      /\ \A tm \in timers : tm.ip # ip
      /\ \A i \in From(ip) : log[i].outcome = GuardNext

\* C16 witness: an origin has sent more than SUSPICIOUS_THRESHOLD requests
\* over more than one window, never more than SUSPICIOUS_THRESHOLD in any
\* interval of length WINDOW_SIZE, and all were passed on.
C16_Witness ==
  \E ip \in Origins :
    /\ LowVolume(ip)
    /\ Cardinality(From(ip)) > SUSPICIOUS_THRESHOLD
    /\ \A i \in From(ip) : log[i].outcome = GuardNext
    /\ \E i, j \in From(ip) : log[j].time = log[i].time + WINDOW_SIZE

\* C17: on the server, the middleware runs before the handler for every
\* request: a request starts its quota check only after the middleware has
\* passed it to next(); a request that arrives from an origin in blockedIPs
\* is answered 429 in that step, which leaves the requests table unchanged;
\* and a request answered 429 by the middleware has had no quota check, no
\* transfer and no row recorded.
C17_GuardBeforeQuota ==
  /\ [](\A t \in Tasks :
          task[t].message = MsgBlocked =>
            /\ task[t].pc = "done"
            /\ task[t].op = "none"
            /\ task[t].transfer = "none"
            /\ ~task[t].allowed
            /\ ~task[t].recorded)
  /\ [][\A t \in Tasks :
          /\ task'[t].op # task[t].op => task[t].pc = "next"
          /\ (/\ task[t].pc = "idle"
              /\ task'[t] # task[t]
              /\ ClientIP(t) \in blockedIPs)
               => /\ task'[t].pc = "done"
                  /\ task'[t].message = MsgBlocked
                  /\ requests' = requests]_vars

\* C17 witness: a POST /api/request from a blocked origin was answered 429 by
\* the middleware: nothing was checked, transferred or recorded for it.
C17_Witness ==
  \E t \in Tasks :
    /\ task[t].pc = "done"
    /\ task[t].message = MsgBlocked
    /\ task[t].op = "none"
    /\ ClientIP(t) \in blockedIPs
    /\ requests = <<>>

\* C28: every request that arrives from a tracked origin (an entry with count
\* and firstSeen, not blocked) at time now: when now - firstSeen > WINDOW_SIZE
\* the entry becomes count 1, firstSeen now and the request is passed to
\* next(); otherwise the count is incremented by exactly 1 and firstSeen is
\* kept: the entry becomes count + 1 with the same firstSeen and the request
\* is passed on when count + 1 is within SUSPICIOUS_THRESHOLD, and the origin
\* is blocked on that incremented count when it is above. The entries of the
\* other origins are not touched.
C28_WindowReset ==
  [][Len(log') = Len(log) + 1 =>
       LET last == log'[Len(log')]
           ip == last.ip
           now == last.time
       IN (ip \in DOMAIN suspiciousIPs /\ ip \notin blockedIPs) =>
            LET e == suspiciousIPs[ip] IN
            /\ now = clock
            /\ \A other \in DOMAIN suspiciousIPs \ {ip} :
                 /\ other \in DOMAIN suspiciousIPs'
                 /\ suspiciousIPs'[other] = suspiciousIPs[other]
            /\ IF now - e.firstSeen > WINDOW_SIZE
                 THEN /\ last.outcome = GuardNext
                      /\ ip \in DOMAIN suspiciousIPs'
                      /\ suspiciousIPs'[ip] = [count |-> 1, firstSeen |-> now]
                      /\ blockedIPs' = blockedIPs
               ELSE IF e.count + 1 <= SUSPICIOUS_THRESHOLD
                 THEN /\ last.outcome = GuardNext
                      /\ ip \in DOMAIN suspiciousIPs'
                      /\ suspiciousIPs'[ip] = [count |-> e.count + 1,
                                               firstSeen |-> e.firstSeen]
                      /\ blockedIPs' = blockedIPs
               ELSE /\ last.outcome = GuardBlocks
                    /\ ip \notin DOMAIN suspiciousIPs'
                    /\ blockedIPs' = blockedIPs \cup {ip}]_vars

\* C28 witness: an origin at SUSPICIOUS_THRESHOLD requests in its window sent
\* its next request more than WINDOW_SIZE after the window's start: it was
\* passed on and the origin is tracked with count 1 since that request; the
\* request before it, exactly WINDOW_SIZE after the start, was still counted
\* in the old window.
C28_Witness ==
  \E ip \in Origins :
    /\ Cardinality(From(ip)) = SUSPICIOUS_THRESHOLD + 1
    /\ \A i \in From(ip) : log[i].outcome = GuardNext
    /\ \E i, j, k \in From(ip) :
         /\ i < j /\ j < k
         /\ log[j].time = log[i].time + WINDOW_SIZE
         /\ log[k].time > log[i].time + WINDOW_SIZE
         /\ ip \in DOMAIN suspiciousIPs
         /\ suspiciousIPs[ip] = [count |-> 1, firstSeen |-> log[k].time]

\* C29 as stated: every run of cleanup at time now removes every tracked
\* entry whose window has expired (now - firstSeen > WINDOW_SIZE) and every
\* blocked origin whose deadline (the time its timer is due) has passed, and
\* keeps every other entry, tracked or blocked, as it is.
C29_SweepRemovesExpired ==
  [][(/\ suspiciousIPs' = cleanup(suspiciousIPs, clock)
      /\ UNCHANGED <<config, requests, clock, task, timers, log>>)
     => /\ \A ip \in DOMAIN suspiciousIPs :
             IF clock - suspiciousIPs[ip].firstSeen > WINDOW_SIZE
               THEN ip \notin DOMAIN suspiciousIPs'
               ELSE /\ ip \in DOMAIN suspiciousIPs'
                    /\ suspiciousIPs'[ip] = suspiciousIPs[ip]
        /\ \A ip \in blockedIPs :
             IF \A tm \in timers : tm.ip = ip => tm.due < clock
               THEN ip \notin blockedIPs'
               ELSE ip \in blockedIPs']_vars

\* The times at which a request from ip was passed to next(), by the log lg.
PassedAt(lg, ip) ==
  {lg[i].time : i \in {k \in 1..Len(lg) : /\ lg[k].ip = ip
                                          /\ lg[k].outcome = GuardNext}}

\* The tracked origins a guard can hold that has served the requests of lg as
\* one holding sus but has run cleanup less often or never (unswept): the
\* entries of sus, and for origins sus does not track possibly an entry that
\* started at one of the origin's requests and whose window has expired at
\* time now.
Unswept(unswept, sus, now, lg) ==
  /\ DOMAIN sus \subseteq DOMAIN unswept
  /\ DOMAIN unswept \subseteq Origins
  /\ \A ip \in DOMAIN sus : unswept[ip] = sus[ip]
  /\ \A ip \in DOMAIN unswept \ DOMAIN sus :
       /\ unswept[ip].count \in 1..SUSPICIOUS_THRESHOLD
       /\ unswept[ip].firstSeen \in PassedAt(lg, ip)
       /\ now - unswept[ip].firstSeen > WINDOW_SIZE

\* All of them.
UnsweptMaps(sus, now, lg) ==
  LET stale(ip) == {e \in [count : 1..SUSPICIOUS_THRESHOLD,
                           firstSeen : PassedAt(lg, ip)] :
                      now - e.firstSeen > WINDOW_SIZE}
      free == {ip \in Origins \ DOMAIN sus : stale(ip) # {}}
  IN UNION {{[ip \in DOMAIN sus \cup X |-> IF ip \in X THEN f[ip] ELSE sus[ip]] :
               f \in {g \in [X -> UNION {stale(ip) : ip \in X}] :
                        \A ip \in X : g[ip] \in stale(ip)}} :
            X \in SUBSET free}

\* C30: cleanup does not change what the middleware answers. In every
\* reachable state, for every guard that has served the same requests with
\* fewer runs of cleanup or none (same blocked origins and timers, tracked
\* origins unswept): a request from any origin gets the same answer from both
\* (passed to next(), 429 as blocked, 429 and blocked now), blocks the same
\* origins and sets the same timers, and leaves the two guards in that same
\* relation; so does a run of cleanup in one of them only, and so does the
\* passing of time. By induction over the requests of a run, every request
\* is answered the same whether or not cleanup ran at any point before it.
C30_SweepNotNeeded ==
  /\ suspiciousIPs \in UnsweptMaps(suspiciousIPs, clock, log)
  /\ \A unswept \in UnsweptMaps(suspiciousIPs, clock, log) :
       /\ Unswept(unswept, suspiciousIPs, clock, log)
       /\ Unswept(unswept, cleanup(suspiciousIPs, clock), clock, log)
       /\ Unswept(unswept, suspiciousIPs, clock + 1, log)
       /\ \A ip \in Origins :
            LET m == middleware(GuardState(suspiciousIPs, blockedIPs, timers),
                                ip, clock)
                n == middleware(GuardState(unswept, blockedIPs, timers),
                                ip, clock)
                lg == Append(log, [ip |-> ip, time |-> clock,
                                   outcome |-> m.outcome])
            IN /\ m.outcome = n.outcome
               /\ m.blockedIPs = n.blockedIPs
               /\ m.timers = n.timers
               /\ Unswept(n.suspiciousIPs, m.suspiciousIPs, clock, lg)

\* C30 witness: cleanup has deleted the expired entry of an origin (its
\* requests were all passed on, it is tracked no more and was never blocked)
\* at a time when another origin is blocked, and more requests can arrive.
C30_Witness ==
  \E ip, other \in Origins :
    /\ From(ip) # {}
    /\ \A i \in From(ip) : log[i].outcome = GuardNext
    /\ \A i \in From(ip) : clock - log[i].time > WINDOW_SIZE
    /\ Unseen(ip)
    /\ other \in blockedIPs
    /\ Len(log) < MaxRequests

\* ---------------------------------------------------------------------------
\* claims: the two-phase methods and the tiers

\* The statements only checkAndRecordRequest has.
WriteFaults == {"insert", "commit"}

\* C32 as stated: in every reachable state, for every address, ceiling and
\* failing statement, checkIfAllowed and checkAndRecordRequest
\* called on the same table at the same time return the same allowed flag,
\* message and amount.
C32_SameDecision ==
  \A a \in Addresses, limit \in Limits, fault \in Faults :
    Decision(checkIfAllowed(requests, a, "ip1", clock, limit, fault))
      = Decision(checkAndRecordRequest(requests, a, "ip1", clock, limit,
                                       fault))

\* C32 amended: the two return the same allowed flag, message and amount
\* unless the INSERT or the COMMIT of checkAndRecordRequest throws on a
\* request that is allowed: then checkIfAllowed, which has neither statement,
\* returns the grant and checkAndRecordRequest returns the error denial.
C32_SameDecisionUnlessWriteFails ==
  \A a \in Addresses, limit \in Limits, fault \in Faults :
    LET chk == checkIfAllowed(requests, a, "ip1", clock, limit, fault)
        rec == checkAndRecordRequest(requests, a, "ip1", clock, limit, fault)
        ok == checkAndRecordRequest(requests, a, "ip1", clock, limit, NoFault)
    IN IF fault \in WriteFaults /\ ok.allowed
         THEN /\ Decision(chk) = Decision(ok)
              /\ Decision(rec) = [allowed |-> FALSE, message |-> MsgError,
                                  amount |-> 0]
         ELSE Decision(chk) = Decision(rec)

\* C32 witness: after a grant of checkAndRecordRequest, an address for which
\* both methods return a reduced amount and an address for which both deny.
C32_Witness ==
  /\ \E t \in Tasks : task[t].allowed /\ task[t].recorded
  /\ \E a \in Addresses, limit \in Limits :
       LET chk == checkIfAllowed(requests, a, "ip1", clock, limit, NoFault)
           rec == checkAndRecordRequest(requests, a, "ip1", clock, limit,
                                        NoFault)
       IN /\ chk.allowed /\ rec.allowed
          /\ chk.amount = rec.amount /\ chk.amount < limit
          /\ rec.db # requests /\ chk.db = requests
  /\ \E a \in Addresses, limit \in Limits :
       LET chk == checkIfAllowed(requests, a, "ip1", clock, limit, NoFault)
           rec == checkAndRecordRequest(requests, a, "ip1", clock, limit,
                                        NoFault)
       IN ~chk.allowed /\ ~rec.allowed /\ chk.message = rec.message

\* The calls of checkAndRecordRequest for address a that were granted.
GrantedTo(a) == {t \in Tasks : task[t].address = a /\ task[t].recorded}

\* The tier of address a has not changed: every grant to a was decided with
\* the same ceiling.
UnchangedTier(a) ==
  \A t, u \in GrantedTo(a) : task[t].limit = task[u].limit

\* C33: in every reachable state, for an address whose grants of
\* checkAndRecordRequest were all decided with one ceiling and for
\* numberPerInterval 1 or 2: every row of the address holds the whole ceiling,
\* any two rows of the address lie at least timeInterval apart (no window
\* holds two grants), and a further call with that ceiling, at any time whose
\* window holds a row of the address, is denied and records nothing.
C33_OneGrantPerWindow ==
  \A a \in Addresses :
    UnchangedTier(a) =>
      LET rows == {i \in 1..Len(requests) : requests[i].address = a} IN
      /\ \A i \in rows, t \in GrantedTo(a) :
           requests[i].amount = task[t].limit
      /\ \A i, j \in rows :
           i # j => \/ requests[i].timestamp - requests[j].timestamp
                         >= timeInterval
                    \/ requests[j].timestamp - requests[i].timestamp
                         >= timeInterval
      /\ \A t \in GrantedTo(a), now \in 0..MaxTime :
           Recent(requests, a, now - timeInterval) # {}
             => LET out == checkAndRecordRequest(requests, a, "ip1", now,
                                                 task[t].limit, NoFault)
                IN ~out.allowed /\ out.db = requests

\* C33 witness: numberPerInterval is 2, an address was granted its whole
\* ceiling, and a later call for it with the same ceiling was denied for the
\* amount limit while the first grant was alone in the window.
C33_Witness ==
  /\ numberPerInterval = 2
  /\ \E t, u \in Tasks :
       /\ t < u
       /\ task[t].address = task[u].address
       /\ task[t].limit = task[u].limit
       /\ task[t].recorded /\ task[t].pc = "done"
       /\ task[u].pc = "done" /\ task[u].message = MsgAmountLimit
       /\ Len(requests) = 1
       /\ requests[1].amount = task[t].limit

\* The rows of db of address a with a timestamp after since, in their order.
OwnRows(db, a, since) ==
  LET Own(row) == row.address = a /\ row.timestamp > since
  IN SelectSeq(db, Own)

\* C34: in every reachable state, for every address, time of call, ceiling
\* and requested amount, checkAndRecordRequest and checkSafeguards return the
\* same allowed flag, message and amount on the whole table from one origin
\* as on the address's own rows of the window alone from the other origin:
\* rows of other addresses, rows outside the window and the origin of the
\* request change nothing.
C34_PerIdentity ==
  \A a \in Addresses, now \in 0..clock :
    LET own == OwnRows(requests, a, now - timeInterval) IN
    /\ \A limit \in Limits :
         Decision(checkAndRecordRequest(requests, a, "ip1", now, limit,
                                        NoFault))
           = Decision(checkAndRecordRequest(own, a, "ip2", now, limit,
                                            NoFault))
    /\ \A amount \in Amounts :
         Decision(checkSafeguards(requests, a, amount, "ip1", now, FALSE))
           = Decision(checkSafeguards(own, a, amount, "ip2", now, FALSE))

\* C34 witness: address a2 holds a grant in the current window, recorded from
\* some origin, address a1 holds none, and a1 is granted its whole ceiling
\* from either origin.
C34_Witness ==
  /\ Recent(requests, "a2", clock - timeInterval) # {}
  /\ Recent(requests, "a1", clock - timeInterval) = {}
  /\ \E t \in Tasks : task[t].address = "a2" /\ task[t].recorded
  /\ \A ip \in Origins :
       LET out == checkAndRecordRequest(requests, "a1", ip, clock, maxAmount,
                                        NoFault)
       IN out.allowed /\ out.amount = maxAmount

\* The two-phase requests whose transfer succeeded and whose
\* recordSuccessfulRequest has returned.
Delivered ==
  {t \in Tasks : /\ task[t].op = "checkIfAllowed"
                 /\ task[t].pc = "done"
                 /\ task[t].transfer = "success"}

\* C35: in every reachable state, for every request whose transfer is
\* settling and for either outcome of the INSERT, the call of
\* recordSuccessfulRequest the request makes returns without throwing; when
\* the INSERT fails the table is left as it was, otherwise it holds the one
\* new row at its end. A request whose transfer succeeded keeps its grant as
\* its answer whether or not its row was recorded.
C35_RecordNeverThrows ==
  /\ \A t \in Tasks, fault \in BOOLEAN :
       (task[t].pc = "transfer" /\ task[t].op = "checkIfAllowed") =>
         LET r == task[t]
             out == recordSuccessfulRequest(requests, r.address, r.ip,
                                            r.amount, clock, fault)
         IN /\ ~out.thrown
            /\ fault => out.db = requests
            /\ ~fault => out.db = Append(requests,
                                         [address |-> r.address,
                                          amount |-> r.amount, ip |-> r.ip,
                                          timestamp |-> clock])
  /\ \A t \in Delivered : task[t].allowed /\ task[t].message = MsgAllowed

\* C35 witness: a transfer succeeded, the INSERT of recordSuccessfulRequest
\* failed, and the request ended with its grant and with no row in the table.
C35_Witness ==
  \E t \in Delivered :
    /\ ~task[t].recorded
    /\ task[t].allowed
    /\ requests = <<>>

\* The lookups that tell nothing about the address: no client was supplied,
\* or getAddressInfo threw.
NoAnswer == {"noDemos", "throws"}

\* The call of a method (checkAndRecordRequest or checkIfAllowed, given as
\* its result out for the ceiling the lookup left and base for the base
\* ceiling) was decided with the base ceiling and not denied for the lookup.
BaseDecision(out, base, address, now) ==
  /\ Decision(out) = Decision(base)
  /\ out.message # MsgError
  /\ Recent(requests, address, now - timeInterval) = {}
       => out.allowed /\ out.amount = maxAmount

\* C36: in every reachable state, when no client is supplied or
\* getAddressInfo throws, the ceiling of the call is the server's maxAmount;
\* every call waiting for its lookup, if the lookup throws, and every new
\* call without a client, is decided by checkAndRecordRequest and by
\* checkIfAllowed as with the base ceiling: never the error denial, and a
\* grant of maxAmount when the address has no row in the window.
C36_LookupFailureUsesBase ==
  /\ \A lookup \in NoAnswer : IdentityLimit(maxAmount, lookup) = maxAmount
  /\ \A t \in Tasks :
       task[t].pc = "lookup" =>
         LET r == task[t]
             limit == IdentityLimit(maxAmount, "throws")
         IN /\ BaseDecision(
                 checkAndRecordRequest(requests, r.address, r.ip, r.now,
                                       limit, NoFault),
                 checkAndRecordRequest(requests, r.address, r.ip, r.now,
                                       maxAmount, NoFault),
                 r.address, r.now)
            /\ BaseDecision(
                 checkIfAllowed(requests, r.address, r.ip, r.now, limit,
                                NoFault),
                 checkIfAllowed(requests, r.address, r.ip, r.now, maxAmount,
                                NoFault),
                 r.address, r.now)
  /\ \A a \in Addresses :
       LET limit == IdentityLimit(maxAmount, "noDemos")
       IN /\ BaseDecision(
               checkAndRecordRequest(requests, a, "ip1", clock, limit,
                                     NoFault),
               checkAndRecordRequest(requests, a, "ip1", clock, maxAmount,
                                     NoFault),
               a, clock)
          /\ BaseDecision(
               checkIfAllowed(requests, a, "ip1", clock, limit, NoFault),
               checkIfAllowed(requests, a, "ip1", clock, maxAmount, NoFault),
               a, clock)

\* C36 witness: the base ceiling is not the identity ceiling, a call is
\* waiting for its lookup with no row of its address in its window, and a
\* call already answered was granted the base ceiling.
C36_Witness ==
  /\ maxAmount # IdentityMaxAmount
  /\ \E t \in Tasks :
       /\ task[t].pc = "lookup"
       /\ Recent(requests, task[t].address, task[t].now - timeInterval) = {}
  /\ \E t \in Tasks :
       /\ task[t].pc = "done" /\ task[t].recorded
       /\ task[t].limit = maxAmount
       /\ \E i \in 1..Len(requests) : requests[i].amount = maxAmount

\* ---------------------------------------------------------------------------
\* claims: the states of an origin in the DDoSProtection

\* The step is a call of the middleware for a request from ip.
RequestFrom(ip) ==
  /\ Len(log') = Len(log) + 1
  /\ log'[Len(log')].ip = ip

\* C37: in every reachable state no origin is both in suspiciousIPs and in
\* blockedIPs. The step that blocks an origin removes its entry; a request
\* from a blocked origin is answered 429 and changes neither map; and the
\* step that unblocks an origin leaves it unseen, neither tracked nor blocked.
C37_TrackedOrBlocked ==
  /\ [](DOMAIN suspiciousIPs \cap blockedIPs = {})
  /\ [][\A ip \in Origins :
          /\ (ip \notin blockedIPs /\ ip \in blockedIPs')
               => /\ ip \in DOMAIN suspiciousIPs
                  /\ ip \notin DOMAIN suspiciousIPs'
          /\ (ip \in blockedIPs /\ RequestFrom(ip))
               => /\ log'[Len(log')].outcome = GuardBlocked
                  /\ suspiciousIPs' = suspiciousIPs
                  /\ blockedIPs' = blockedIPs
                  /\ timers' = timers
          /\ (ip \in blockedIPs /\ ip \notin blockedIPs')
               => /\ ip \notin DOMAIN suspiciousIPs'
                  /\ suspiciousIPs' = suspiciousIPs]_vars

\* C37 witness: an origin was blocked, sent a request while blocked, and has
\* been unblocked: it is unseen again, and its requests while blocked left no
\* entry.
C37_Witness ==
  \E ip \in Origins : \E i, j \in From(ip) :
    /\ i < j
    /\ log[i].outcome = GuardBlocks
    /\ log[j].outcome = GuardBlocked
    /\ \A k \in From(ip) : k <= j
    /\ Unseen(ip)

\* C38: in every reachable state every tracked origin has a count from 1 to
\* SUSPICIOUS_THRESHOLD. A request that finds its origin's count at the
\* threshold in a window that has not expired blocks the origin and removes
\* the entry in that step; an origin is blocked by no other step; and every
\* other request that is counted leaves a count of at most the threshold.
C38_CountWithinThreshold ==
  /\ [](\A ip \in DOMAIN suspiciousIPs :
          /\ suspiciousIPs[ip].count >= 1
          /\ suspiciousIPs[ip].count <= SUSPICIOUS_THRESHOLD)
  /\ [][\A ip \in Origins :
          /\ (/\ RequestFrom(ip)
              /\ ip \in DOMAIN suspiciousIPs
              /\ suspiciousIPs[ip].count = SUSPICIOUS_THRESHOLD
              /\ clock - suspiciousIPs[ip].firstSeen <= WINDOW_SIZE)
               => /\ log'[Len(log')].outcome = GuardBlocks
                  /\ ip \in blockedIPs'
                  /\ ip \notin DOMAIN suspiciousIPs'
          /\ (ip \notin blockedIPs /\ ip \in blockedIPs')
               => /\ RequestFrom(ip)
                  /\ ip \in DOMAIN suspiciousIPs
                  /\ suspiciousIPs[ip].count = SUSPICIOUS_THRESHOLD
          /\ (RequestFrom(ip) /\ ip \in DOMAIN suspiciousIPs')
               => /\ log'[Len(log')].outcome = GuardNext
                  /\ suspiciousIPs'[ip].count <= SUSPICIOUS_THRESHOLD]_vars

\* C38 witness: an origin is tracked with its count at the threshold while
\* the other origin, whose count went past it, is blocked and not tracked.
C38_Witness ==
  \E ip, other \in Origins :
    /\ ip \in DOMAIN suspiciousIPs
    /\ suspiciousIPs[ip].count = SUSPICIOUS_THRESHOLD
    /\ other \in blockedIPs
    /\ other \notin DOMAIN suspiciousIPs
    /\ \E i \in From(other) : log[i].outcome = GuardBlocks

\* The timers pending for ip.
TimersOf(tms, ip) == {tm \in tms : tm.ip = ip}

\* C39: in every reachable state an origin is blocked exactly when a timer is
\* pending for it, and then one timer only. The step that blocks an origin
\* sets its one timer, due BLOCK_DURATION later; no other middleware step
\* sets a timer; and the step that unblocks an origin runs the timer of its
\* last block, so never earlier than BLOCK_DURATION after that block.
C39_OneUnblockPerBlock ==
  /\ [](\A ip \in Origins :
          /\ ip \in blockedIPs <=> TimersOf(timers, ip) # {}
          /\ Cardinality(TimersOf(timers, ip)) <= 1)
  /\ [][\A ip \in Origins :
          /\ (ip \notin blockedIPs /\ ip \in blockedIPs')
               => /\ TimersOf(timers, ip) = {}
                  /\ TimersOf(timers', ip)
                       = {[ip |-> ip, due |-> clock + BLOCK_DURATION]}
          /\ (ip \in blockedIPs <=> ip \in blockedIPs')
               => TimersOf(timers', ip) = TimersOf(timers, ip)
          /\ (ip \in blockedIPs /\ ip \notin blockedIPs')
               => LET b == LastBlock(ip, Len(log) + 1)
                  IN /\ b # 0
                     /\ TimersOf(timers, ip)
                          = {[ip |-> ip, due |-> log[b].time + BLOCK_DURATION]}
                     /\ TimersOf(timers', ip) = {}
                     /\ clock >= log[b].time + BLOCK_DURATION]_vars

\* C39 witness: an origin was blocked, unblocked by its timer, blocked a
\* second time, and the one timer pending for it is the second block's.
C39_Witness ==
  \E ip \in Origins : \E i, j \in From(ip) :
    /\ i < j
    /\ log[i].outcome = GuardBlocks
    /\ log[j].outcome = GuardBlocks
    /\ ip \in blockedIPs
    /\ TimersOf(timers, ip)
         = {[ip |-> ip, due |-> log[j].time + BLOCK_DURATION]}

\* ---------------------------------------------------------------------------
\* claims: the time until reset

\* C40: in every reachable state and for every address, the timeUntilReset of
\* getAddressStats is 0 when the address has no row in the window; when it
\* has one, the last of them at a Unix time lastGrantAt other than 0, it is
\* timeInterval - (now - lastGrantAt), not below 0. That many seconds later,
\* with the table unchanged, the window of the address is empty,
\* timeUntilReset is 0, and checkAndRecordRequest (any ceiling) and
\* checkSafeguards (an amount up to maxAmount) allow a request of the
\* address; one second earlier the window still holds the last grant.
C40_TimeUntilReset ==
  \A a \in Addresses :
    LET ids == Recent(requests, a, clock - timeInterval)
        stats == getAddressStats(requests, a, clock)
        later == clock + stats.timeUntilReset
    IN
    /\ ids = {} => stats.timeUntilReset = 0
    /\ (ids # {} /\ MaxTimestamp(requests, ids) # 0)
         => /\ stats.timeUntilReset
                 = Max(0, timeInterval
                            - (clock - MaxTimestamp(requests, ids)))
            /\ stats.timeUntilReset > 0
            /\ Recent(requests, a, later - timeInterval) = {}
            /\ Recent(requests, a, (later - 1) - timeInterval) # {}
            /\ getAddressStats(requests, a, later).timeUntilReset = 0
            /\ \A limit \in Limits :
                 checkAndRecordRequest(requests, a, "ip1", later, limit,
                                       NoFault).allowed
            /\ checkSafeguards(requests, a, maxAmount, "ip1", later,
                               FALSE).allowed

\* C40 witness: an address holds two grants of one window, made at two
\* different times after time 0, and a second has passed since the last
\* grant of an address, so that its timeUntilReset is below timeInterval.
C40_Witness ==
  /\ \E a \in Addresses :
       LET ids == Recent(requests, a, clock - timeInterval)
       IN /\ Cardinality(ids) = 2
          /\ \A i \in ids : requests[i].timestamp > 0
          /\ \E i, j \in ids : requests[i].timestamp < requests[j].timestamp
          /\ getAddressStats(requests, a, clock).timeUntilReset > 0
  /\ \E a \in Addresses :
       LET ids == Recent(requests, a, clock - timeInterval)
           stats == getAddressStats(requests, a, clock)
       IN /\ ids # {}
          /\ clock > MaxTimestamp(requests, ids)
          /\ stats.timeUntilReset > 0
          /\ stats.timeUntilReset < timeInterval

====
